---- MODULE Spec2Model ----
(***************************************************************************)
(* Rule-execution and finding pipeline of the Lupin bundle scanner: the    *)
(* CLI main loop (bin/lupin.js) and the programmatic API (src/index.js).   *)
(*                                                                         *)
(* A bundle text is represented by what the detectors return on it: a     *)
(* function from rule id to the sequence of raw matches rule.run(code)    *)
(* yields, each raw match carrying message, position and match text.      *)
(***************************************************************************)
EXTENDS Integers, Sequences, FiniteSets, TLC

VARIABLES opts, fs, faulty, foundBundles, pc, bundlesToScan, b, code, i,
          findingsRaw, findings, displayFindings, severityCounts, hasBlocking,
          allFindings, hasBlockingFindings, report, console, err, exitCode,
          apiResult, call, ret

vars == <<opts, fs, faulty, foundBundles, pc, bundlesToScan, b, code, i,
          findingsRaw, findings, displayFindings, severityCounts, hasBlocking,
          allFindings, hasBlockingFindings, report, console, err, exitCode,
          apiResult, call, ret>>

\* the state of a run of the scanner
runVars == <<opts, fs, faulty, foundBundles, pc, bundlesToScan, b, code, i,
             findingsRaw, findings, displayFindings, severityCounts, hasBlocking,
             allFindings, hasBlockingFindings, report, console, err, exitCode,
             apiResult>>

(***************************************************************************)
(* Bounds of the model.                                                    *)
(***************************************************************************)
\* most raw matches in the text of a bundle given with --bundle
MaxRaw == 2
\* most raw matches in the texts of the auto-discovered bundles together
MaxRawFound == 2
\* most bundle files that discovery finds
MaxBundles == 2
\* largest explicit --max-findings value (besides the default)
MaxCap == 2

(***************************************************************************)
(* Program constants.                                                      *)
(***************************************************************************)
SEVERITY_ORDER == <<"info", "low", "medium", "high", "critical">>

DefaultMaxFindings == 5000

DedupWindow == 50

(***************************************************************************)
(* The rule groups of bin/rules: id, title and severity of every detector, *)
(* in the order of the files.                                              *)
(***************************************************************************)
CORE_RULES ==
    << [id |-> "RN-001", title |-> "Use of eval", severity |-> "high"],
       [id |-> "RN-002", title |-> "Use of Function constructor", severity |-> "high"],
       [id |-> "NET-001", title |-> "Insecure HTTP URLs", severity |-> "medium"],
       [id |-> "KEY-STRIPE", title |-> "Stripe Secret Key", severity |-> "critical"],
       [id |-> "KEY-GCP", title |-> "Google API Key", severity |-> "high"],
       [id |-> "KEY-SENTRY", title |-> "Sentry DSN", severity |-> "medium"],
       [id |-> "KEY-SLACK", title |-> "Slack Token", severity |-> "high"],
       [id |-> "KEY-AWS", title |-> "AWS Access Key", severity |-> "high"],
       [id |-> "KEY-GH", title |-> "GitHub Token", severity |-> "high"],
       [id |-> "KEY-OTHER", title |-> "High-entropy strings (likely secrets)", severity |-> "medium"],
       [id |-> "DBG-001", title |-> "Development markers leaked", severity |-> "low"],
       [id |-> "WV-001", title |-> "Potential unsafe WebView usage", severity |-> "medium"],
       [id |-> "JWT-001", title |-> "JWT-like token found", severity |-> "high"],
       [id |-> "ENV-001", title |-> "Staging/test endpoints in bundle", severity |-> "low"],
       [id |-> "RN-ASYNC-001", title |-> "Sensitive data in AsyncStorage", severity |-> "high"],
       [id |-> "RN-STATE-001", title |-> "Sensitive data in Redux/State", severity |-> "medium"],
       [id |-> "KEY-FIREBASE", title |-> "Firebase API Key", severity |-> "medium"],
       [id |-> "KEY-MAPBOX", title |-> "Mapbox Token", severity |-> "medium"],
       [id |-> "KEY-TWILIO", title |-> "Twilio Credentials", severity |-> "critical"],
       [id |-> "KEY-SENDGRID", title |-> "SendGrid API Key", severity |-> "critical"],
       [id |-> "KEY-ALGOLIA", title |-> "Algolia API Key", severity |-> "high"],
       [id |-> "KEY-OAUTH", title |-> "OAuth Client Secret", severity |-> "critical"],
       [id |-> "KEY-PRIVATE", title |-> "Private Key Pattern", severity |-> "critical"],
       [id |-> "RN-DB-001", title |-> "Unencrypted Realm Database", severity |-> "high"],
       [id |-> "RN-DB-002", title |-> "SQLite encryption check", severity |-> "medium"],
       [id |-> "RN-LOG-001", title |-> "Logging sensitive data", severity |-> "medium"],
       [id |-> "RN-AUTH-001", title |-> "Biometric bypass risk", severity |-> "medium"],
       [id |-> "RN-LINK-001", title |-> "Unsafe deep link handling", severity |-> "high"],
       [id |-> "RN-NET-002", title |-> "Certificate pinning not detected", severity |-> "low"],
       [id |-> "RN-NET-003", title |-> "Insecure SSL/TLS configuration", severity |-> "high"],
       [id |-> "RN-CLIP-001", title |-> "Sensitive data in clipboard", severity |-> "medium"],
       [id |-> "RN-DEBUG-001", title |-> "Debug mode enabled", severity |-> "medium"],
       [id |-> "EXPO-001", title |-> "Expo SecureStore usage check", severity |-> "info"],
       [id |-> "PAY-001", title |-> "Payment card data handling", severity |-> "critical"],
       [id |-> "API-001", title |-> "Hardcoded API endpoints", severity |-> "low"],
       [id |-> "KEY-FACEBOOK", title |-> "Facebook App Secret", severity |-> "critical"],
       [id |-> "KEY-TWITTER", title |-> "Twitter API Secret", severity |-> "critical"],
       [id |-> "DB-URL-001", title |-> "Database connection string", severity |-> "critical"],
       [id |-> "ADMIN-001", title |-> "Hardcoded admin credentials", severity |-> "critical"],
       [id |-> "ENV-002", title |-> "Environment secrets in bundle", severity |-> "high"],
       [id |-> "KEY-ANALYTICS", title |-> "Analytics write key", severity |-> "medium"],
       [id |-> "KEY-PUSH", title |-> "Push notification secret", severity |-> "high"],
       [id |-> "CRYPTO-001", title |-> "Hardcoded encryption key", severity |-> "critical"],
       [id |-> "RN-SCHEME-001", title |-> "Custom URL scheme security", severity |-> "medium"],
       [id |-> "WV-002", title |-> "WebView JavaScript bridge", severity |-> "high"],
       [id |-> "KEY-SDK", title |-> "Third-party SDK keys", severity |-> "medium"],
       [id |-> "KEY-OPENAI", title |-> "OpenAI API Key", severity |-> "critical"],
       [id |-> "KEY-OPENAI-PROJ", title |-> "OpenAI Project API Key", severity |-> "critical"],
       [id |-> "KEY-OPENAI-ORG", title |-> "OpenAI Organization Key", severity |-> "critical"],
       [id |-> "KEY-ANTHROPIC", title |-> "Anthropic (Claude) API Key", severity |-> "critical"],
       [id |-> "KEY-GOOGLE-AI", title |-> "Google AI API Key", severity |-> "critical"],
       [id |-> "KEY-COHERE", title |-> "Cohere API Key", severity |-> "critical"],
       [id |-> "KEY-HUGGINGFACE", title |-> "Hugging Face Token", severity |-> "high"],
       [id |-> "KEY-AZURE-OPENAI", title |-> "Azure OpenAI Key", severity |-> "critical"],
       [id |-> "KEY-REPLICATE", title |-> "Replicate API Token", severity |-> "high"],
       [id |-> "KEY-AI21", title |-> "AI21 Labs API Key", severity |-> "critical"],
       [id |-> "KEY-AI-GENERIC", title |-> "Generic AI API Key Pattern", severity |-> "high"],
       [id |-> "KEY-STABILITY", title |-> "Stability AI API Key", severity |-> "high"],
       [id |-> "KEY-MISTRAL", title |-> "Mistral AI API Key", severity |-> "critical"] >>

DEPENDENCY_RULES ==
    << [id |-> "DEP-001", title |-> "Deprecated React Native AsyncStorage", severity |-> "medium"],
       [id |-> "DEP-002", title |-> "Deprecated React Native NetInfo", severity |-> "medium"],
       [id |-> "DEP-003", title |-> "Deprecated React Native WebView", severity |-> "medium"],
       [id |-> "DEP-004", title |-> "Deprecated React Native ListView", severity |-> "low"],
       [id |-> "DEP-005", title |-> "Deprecated React Native Geolocation", severity |-> "medium"],
       [id |-> "DEP-006", title |-> "Deprecated React Native CameraRoll", severity |-> "medium"],
       [id |-> "DEP-007", title |-> "Deprecated React Native Clipboard", severity |-> "medium"],
       [id |-> "DEP-008", title |-> "Deprecated PropTypes from React", severity |-> "low"],
       [id |-> "DEP-009", title |-> "Known vulnerable lodash usage", severity |-> "medium"],
       [id |-> "DEP-010", title |-> "Outdated React Native version indicators", severity |-> "medium"],
       [id |-> "DEP-011", title |-> "Potential vulnerable npm package patterns", severity |-> "high"] >>

FILE_STORAGE_RULES ==
    << [id |-> "FILE-001", title |-> "Unencrypted sensitive file patterns", severity |-> "high"],
       [id |-> "FILE-002", title |-> "Android external storage usage", severity |-> "medium"],
       [id |-> "FILE-003", title |-> "Insecure file permissions", severity |-> "high"],
       [id |-> "FILE-004", title |-> "iOS unencrypted file storage", severity |-> "medium"],
       [id |-> "FILE-005", title |-> "Hardcoded resource file paths with secrets", severity |-> "high"],
       [id |-> "FILE-006", title |-> "Unverified file downloads", severity |-> "medium"],
       [id |-> "FILE-007", title |-> "Sensitive data in cache directory", severity |-> "medium"],
       [id |-> "FILE-008", title |-> "Sensitive data in SharedPreferences/UserDefaults", severity |-> "high"],
       [id |-> "FILE-009", title |-> "Android backup enabled for sensitive data", severity |-> "medium"],
       [id |-> "FILE-010", title |-> "Sensitive data in temporary files", severity |-> "medium"] >>

PERMISSIONS_PRIVACY_RULES ==
    << [id |-> "PERM-001", title |-> "Camera permission usage", severity |-> "medium"],
       [id |-> "PERM-002", title |-> "Microphone permission usage", severity |-> "medium"],
       [id |-> "PERM-003", title |-> "Location permission usage", severity |-> "medium"],
       [id |-> "PERM-004", title |-> "Contacts permission usage", severity |-> "medium"],
       [id |-> "PERM-005", title |-> "Calendar permission usage", severity |-> "low"],
       [id |-> "PERM-006", title |-> "SMS permission usage", severity |-> "high"],
       [id |-> "PERM-007", title |-> "Call log permission usage", severity |-> "high"],
       [id |-> "PERM-008", title |-> "Storage permission without scoped storage", severity |-> "medium"],
       [id |-> "PRIV-001", title |-> "Device ID collection", severity |-> "medium"],
       [id |-> "PRIV-002", title |-> "IDFA/GAID collection", severity |-> "medium"],
       [id |-> "PRIV-003", title |-> "Biometric data collection", severity |-> "high"],
       [id |-> "PRIV-004", title |-> "Health data access", severity |-> "high"],
       [id |-> "PRIV-005", title |-> "Clipboard access for tracking", severity |-> "medium"],
       [id |-> "PRIV-006", title |-> "Background location tracking", severity |-> "high"],
       [id |-> "PRIV-007", title |-> "Screenshot/Screen recording prevention missing", severity |-> "low"],
       [id |-> "PRIV-008", title |-> "Bluetooth permission usage", severity |-> "medium"],
       [id |-> "PRIV-009", title |-> "Network state tracking", severity |-> "low"],
       [id |-> "PRIV-010", title |-> "Photo library access", severity |-> "medium"] >>

OBFUSCATION_BUILD_RULES ==
    << [id |-> "OBF-001", title |-> "Unminified production bundle", severity |-> "medium"],
       [id |-> "OBF-002", title |-> "Source map in production", severity |-> "high"],
       [id |-> "OBF-003", title |-> "Readable function/variable names", severity |-> "low"],
       [id |-> "OBF-004", title |-> "Missing ProGuard/R8 obfuscation indicators", severity |-> "medium"],
       [id |-> "OBF-005", title |-> "Debug symbols in production", severity |-> "medium"],
       [id |-> "BUILD-001", title |-> "Signing key or keystore reference", severity |-> "critical"],
       [id |-> "BUILD-002", title |-> "CI/CD credentials or tokens", severity |-> "critical"],
       [id |-> "BUILD-003", title |-> "Build script references", severity |-> "low"],
       [id |-> "BUILD-004", title |-> "Apple certificates or provisioning profiles", severity |-> "critical"],
       [id |-> "OBF-006", title |-> "Hermes bytecode detection", severity |-> "info"],
       [id |-> "OBF-007", title |-> "Unencrypted sensitive strings", severity |-> "medium"],
       [id |-> "OBF-008", title |-> "React DevTools enabled", severity |-> "medium"],
       [id |-> "OBF-009", title |-> "Redux DevTools enabled", severity |-> "medium"],
       [id |-> "OBF-010", title |-> "Excessive console statements", severity |-> "low"] >>

AUTH_SESSION_RULES ==
    << [id |-> "AUTH-001", title |-> "JWT in AsyncStorage", severity |-> "high"],
       [id |-> "AUTH-002", title |-> "Tokens without SecureStore", severity |-> "high"],
       [id |-> "AUTH-003", title |-> "Missing token expiration check", severity |-> "medium"],
       [id |-> "AUTH-004", title |-> "Long-lived tokens", severity |-> "medium"],
       [id |-> "AUTH-005", title |-> "Refresh token handling", severity |-> "medium"],
       [id |-> "AUTH-006", title |-> "OAuth without PKCE", severity |-> "high"],
       [id |-> "AUTH-007", title |-> "OAuth redirect URI validation", severity |-> "high"],
       [id |-> "AUTH-008", title |-> "OAuth state parameter missing", severity |-> "high"],
       [id |-> "AUTH-009", title |-> "Session without timeout", severity |-> "medium"],
       [id |-> "AUTH-010", title |-> "Hardcoded session IDs", severity |-> "critical"],
       [id |-> "AUTH-011", title |-> "API keys in Authorization headers", severity |-> "high"],
       [id |-> "AUTH-012", title |-> "API keys in URL parameters", severity |-> "critical"],
       [id |-> "AUTH-013", title |-> "Client-side password validation only", severity |-> "medium"],
       [id |-> "AUTH-014", title |-> "Weak password requirements", severity |-> "medium"],
       [id |-> "AUTH-015", title |-> "Biometric fallback to insecure method", severity |-> "high"],
       [id |-> "AUTH-016", title |-> "Missing two-factor authentication", severity |-> "low"],
       [id |-> "AUTH-017", title |-> "Insecure \"Remember Me\" implementation", severity |-> "high"],
       [id |-> "AUTH-018", title |-> "Auth endpoints without certificate pinning", severity |-> "medium"],
       [id |-> "AUTH-019", title |-> "Social login token validation", severity |-> "high"],
       [id |-> "AUTH-020", title |-> "Account enumeration vulnerability", severity |-> "medium"] >>

REACT_NATIVE_RULES ==
    << [id |-> "RN-EXEC-001", title |-> "Dynamic code execution with eval", severity |-> "critical"],
       [id |-> "RN-EXEC-002", title |-> "Function constructor usage", severity |-> "critical"],
       [id |-> "RN-EXEC-003", title |-> "Dynamic require/import", severity |-> "high"],
       [id |-> "RN-INTEGRITY-001", title |-> "Missing root/jailbreak detection", severity |-> "medium"],
       [id |-> "RN-INTEGRITY-002", title |-> "App integrity/tampering detection", severity |-> "medium"],
       [id |-> "RN-WV-001", title |-> "WebView with JavaScript enabled", severity |-> "high"],
       [id |-> "RN-WV-002", title |-> "WebView injectedJavaScript", severity |-> "high"],
       [id |-> "RN-WV-003", title |-> "WebView file access enabled", severity |-> "high"],
       [id |-> "RN-WV-004", title |-> "WebView origin whitelist too broad", severity |-> "high"],
       [id |-> "RN-WV-005", title |-> "WebView message handling without validation", severity |-> "critical"],
       [id |-> "RN-WV-006", title |-> "WebView postMessage with sensitive data", severity |-> "high"],
       [id |-> "RN-BRIDGE-001", title |-> "Native module without input validation", severity |-> "high"],
       [id |-> "RN-LINK-001", title |-> "Deep link without validation", severity |-> "critical"],
       [id |-> "RN-LINK-002", title |-> "Deep link with eval or navigation", severity |-> "critical"],
       [id |-> "RN-DEBUG-001", title |-> "Remote debugging enabled", severity |-> "high"],
       [id |-> "RN-DEBUG-002", title |-> "Dev menu accessible", severity |-> "medium"],
       [id |-> "RN-DEBUG-003", title |-> "Performance monitor enabled", severity |-> "low"],
       [id |-> "RN-DEBUG-004", title |-> "Debug server URLs", severity |-> "medium"],
       [id |-> "RN-DEBUG-005", title |-> "Network request logging", severity |-> "medium"],
       [id |-> "RN-REANIMATE-001", title |-> "Reanimated worklet with user input", severity |-> "medium"],
       [id |-> "RN-STORAGE-001", title |-> "AsyncStorage for sensitive data", severity |-> "high"],
       [id |-> "RN-STORAGE-002", title |-> "SQLite without encryption", severity |-> "medium"],
       [id |-> "RN-STORAGE-003", title |-> "Realm without encryption", severity |-> "high"],
       [id |-> "RN-EXPO-001", title |-> "Expo OTA updates without code signing", severity |-> "medium"],
       [id |-> "RN-EXPO-002", title |-> "Expo development mode indicators", severity |-> "low"],
       [id |-> "RN-SDK-001", title |-> "Ad SDK with excessive permissions", severity |-> "medium"],
       [id |-> "RN-SDK-002", title |-> "Analytics SDK collecting sensitive data", severity |-> "high"],
       [id |-> "RN-SDK-003", title |-> "Crash reporting with sensitive data", severity |-> "medium"],
       [id |-> "RN-CODEPUSH-001", title |-> "CodePush without signature verification", severity |-> "high"],
       [id |-> "RN-GESTURE-001", title |-> "Sensitive actions on simple gesture", severity |-> "medium"] >>

\* const RULES = [...CORE_RULES, ..., ...REACT_NATIVE_RULES]: the whole registry
ALL_RULES ==
    CORE_RULES \o DEPENDENCY_RULES \o FILE_STORAGE_RULES
        \o PERMISSIONS_PRIVACY_RULES \o OBFUSCATION_BUILD_RULES
        \o AUTH_SESSION_RULES \o REACT_NATIVE_RULES

\* the three detectors the pipeline is run with: A stands for a detector that
\* reports its matches with their text (findRegex), B for a critical one,
\* C for OBF-001, which reports at position 0 without a match text; the
\* order is the iteration order
RULES == << [id |-> "A", title |-> "tA", severity |-> "medium"],
            [id |-> "B", title |-> "tB", severity |-> "critical"],
            [id |-> "C", title |-> "tC", severity |-> "medium"] >>

\* src/index.js getRules() returns the empty list
getRules == << >>

(***************************************************************************)
(* Inputs: raw matches a detector can return, bundle texts, file system.   *)
(***************************************************************************)
RuleIds == {RULES[k].id : k \in 1..Len(RULES)}

\* positions around the window borders: 0 and 49 share a window, 49 and 50
\* do not, 50 and 100 are 50 apart, 49 and 100 are 51 apart
Positions == {0, 49, 50, 100}

\* variant: the raw match carries a severity of its own
makeFinding_severity(message, idx, matchText) ==
    [message |-> message, position |-> idx, match |-> matchText,
     severity |-> "info"]

\* makeFinding(message, idx, code, matchText); match "" stands for an
\* absent (undefined) matchText
makeFinding(message, idx, matchText) ==
    [message |-> message, position |-> idx, match |-> matchText]

\* { ...a, ...over }: the fields of both, those of over winning
spread(a, over) == over @@ a

\* KEY-OTHER: { ...makeFinding(...), meta: { entropy: ent, length } }
withMeta(f, ent, len) == spread(f, [meta |-> [entropy |-> ent, length |-> len]])

\* a match of A that has its text also carries the entropy metadata
RawOf(id, rich) ==
    IF id = "A"
    THEN IF rich
         THEN {withMeta(makeFinding("m", p, "k"), 4, 20) : p \in Positions}
                 \cup {makeFinding("k", p, "") : p \in {0, 49}}
                 \cup {makeFinding("m", p, "") : p \in {0, 50}}
         ELSE {withMeta(makeFinding("m", 0, "k"), 4, 20)}
    ELSE IF id = "B" THEN {makeFinding("b", 0, "")}
    ELSE {makeFinding("c", 0, "")}

SeqUpTo(S, n) == UNION {[1..k -> S] : k \in 0..n}

RawTotal(c) == Len(c["A"]) + Len(c["B"]) + Len(c["C"])

CodesOf(n, rich) ==
    {c \in {[r \in RuleIds |-> IF r = "A" THEN a ELSE IF r = "B" THEN bb ELSE cc] :
               a \in SeqUpTo(RawOf("A", rich), n),
               bb \in SeqUpTo(RawOf("B", rich), n),
               cc \in SeqUpTo(RawOf("C", rich), n)} :
        RawTotal(c) <= n}

EmptyCode == [r \in RuleIds |-> << >>]

RECURSIVE SumSeq(_)
SumSeq(q) == IF q = << >> THEN 0 ELSE Head(q) + SumSeq(Tail(q))

\* isBundleMinified(code): the sample is given by the lengths of the lines
\* of sample.split('\n') and by whether a minification pattern occurs in it
isBundleMinified(lineLengths, hasMinifiedPatterns) ==
    LET sampleLength == SumSeq(lineLengths) + Len(lineLengths) - 1
        hasLongLines == \E k \in DOMAIN lineLengths : lineLengths[k] > 500
    IN  \/ sampleLength > 200 * Len(lineLengths)
        \/ hasLongLines /\ hasMinifiedPatterns

\* run of OBF-001 (detector C): one finding at position 0, without a match
\* text, when the bundle does not look minified
OBF001(lineLengths, hasMinifiedPatterns) ==
    IF ~isBundleMinified(lineLengths, hasMinifiedPatterns)
    THEN <<makeFinding("c", 0, "")>>
    ELSE << >>

\* ''.split('\n') is ['']: the empty text has one line of length 0
EmptyTextLines == <<0>>

\* what the detectors return on the empty text: no regular expression of
\* A or B matches, OBF-001 tests the sample
EmptyText ==
    [r \in RuleIds |-> IF r = "C" THEN OBF001(EmptyTextLines, FALSE) ELSE << >>]

NoFile == [exists |-> FALSE, content |-> EmptyCode]

File(c) == [exists |-> TRUE, content |-> c]

Paths == 1..MaxBundles

MaxFindingsChoices == (0..MaxCap) \cup {DefaultMaxFindings}

Levels == {SEVERITY_ORDER[k] : k \in 1..Len(SEVERITY_ORDER)}

(***************************************************************************)
(* Helpers of src/index.js (the CLI inlines the same code).                *)
(***************************************************************************)
\* variant: a value that does not occur gets the index behind the last
indexOf_behind(arr, x) ==
    IF \E k \in 1..Len(arr) : arr[k] = x
    THEN (CHOOSE k \in 1..Len(arr) :
             arr[k] = x /\ \A j \in 1..(k - 1) : arr[j] # x) - 1
    ELSE Len(arr)

\* Array.prototype.indexOf: zero-based index of the first occurrence, or -1
indexOf(arr, x) ==
    IF \E k \in 1..Len(arr) : arr[k] = x
    THEN (CHOOSE k \in 1..Len(arr) :
             arr[k] = x /\ \A j \in 1..(k - 1) : arr[j] # x) - 1
    ELSE -1

severityGte(a, bb) == indexOf(SEVERITY_ORDER, a) >= indexOf(SEVERITY_ORDER, bb)

\* String.prototype.toLowerCase on the level values
toLowerCase(s) == IF s = "HIGH" THEN "high" ELSE s

\* opts.failLevel || 'medium': the empty string is falsy
orDefault(level) == IF level = "" THEN "medium" ELSE level

\* variant: the key has no position window
dedupKey_nowindow(f) ==
    f.id \o ":" \o (IF f.match # "" THEN f.match ELSE f.message)

\* variant: the key is built from the message only
dedupKey_message(f) ==
    f.id \o ":" \o f.message \o ":" \o ToString(f.position \div DedupWindow)

\* `${f.id}:${f.match || f.message}:${Math.floor((f.position || 0) / 50)}`
dedupKey(f) ==
    f.id \o ":" \o (IF f.match # "" THEN f.match ELSE f.message) \o ":"
         \o ToString(f.position \div DedupWindow)

RECURSIVE dedupLoop(_, _, _)
\* the Map keeps the first finding of every key in insertion order
dedupLoop(fds, keys, kept) ==
    IF fds = << >> THEN kept
    ELSE LET f == Head(fds)
             k == dedupKey(f)
         IN  IF k \in keys
             THEN dedupLoop(Tail(fds), keys, kept)
             ELSE dedupLoop(Tail(fds), keys \cup {k}, Append(kept, f))

deduplicateFindings(fds) == dedupLoop(fds, {}, << >>)

\* variant: the comparator looks at the severity alone
compareFindings_severity(a, bb) ==
    indexOf(SEVERITY_ORDER, bb.severity) - indexOf(SEVERITY_ORDER, a.severity)

\* comparator of findings.sort: negative when a goes before bb
compareFindings(a, bb) ==
    LET sev == indexOf(SEVERITY_ORDER, bb.severity) - indexOf(SEVERITY_ORDER, a.severity)
    IN  IF sev # 0 THEN sev ELSE a.position - bb.position

RECURSIVE insertSorted_before(_, _)
\* variant: x goes before the elements it ties with
insertSorted_before(sorted, x) ==
    IF sorted = << >> THEN <<x>>
    ELSE IF compareFindings(Head(sorted), x) < 0
         THEN <<Head(sorted)>> \o insertSorted_before(Tail(sorted), x)
         ELSE <<x>> \o sorted

RECURSIVE insertSorted(_, _)
\* x goes after every element that does not compare greater than it
insertSorted(sorted, x) ==
    IF sorted = << >> THEN <<x>>
    ELSE IF compareFindings(Head(sorted), x) <= 0
         THEN <<Head(sorted)>> \o insertSorted(Tail(sorted), x)
         ELSE <<x>> \o sorted

RECURSIVE sortLoop(_, _)
sortLoop(fds, acc) ==
    IF fds = << >> THEN acc ELSE sortLoop(Tail(fds), insertSorted(acc, Head(fds)))

\* Array.prototype.sort is stable
sortFindings(fds) == sortLoop(fds, << >>)

RECURSIVE filterBySeverity(_, _)
filterBySeverity(fds, minLevel) ==
    IF fds = << >> THEN << >>
    ELSE IF severityGte(Head(fds).severity, minLevel)
         THEN <<Head(fds)>> \o filterBySeverity(Tail(fds), minLevel)
         ELSE filterBySeverity(Tail(fds), minLevel)

RECURSIVE someBlocking(_, _)
\* findings.some(f => severityGte(f.severity, failLevel))
someBlocking(fds, failLevel) ==
    IF fds = << >> THEN FALSE
    ELSE severityGte(Head(fds).severity, failLevel) \/ someBlocking(Tail(fds), failLevel)

RECURSIVE severityReduce_overwrite(_, _)
\* variant: acc[f.severity] = 1
severityReduce_overwrite(fds, acc) ==
    IF fds = << >> THEN acc
    ELSE LET s == Head(fds).severity
         IN  severityReduce_overwrite(Tail(fds),
                 [t \in (DOMAIN acc) \cup {s} |-> IF t = s THEN 1 ELSE acc[t]])

RECURSIVE severityReduce(_, _)
\* reduce((acc, f) => { acc[f.severity] = (acc[f.severity] || 0) + 1 }, {})
severityReduce(fds, acc) ==
    IF fds = << >> THEN acc
    ELSE LET s == Head(fds).severity
             n == IF s \in DOMAIN acc THEN acc[s] ELSE 0
         IN  severityReduce(Tail(fds),
                 [t \in (DOMAIN acc) \cup {s} |-> IF t = s THEN n + 1 ELSE acc[t]])

EmptyCounts == [t \in {} |-> 0]

severityBreakdown(fds) == severityReduce(fds, EmptyCounts)

\* variant: the detector keeps its regular expression between invocations
\* and, once it has run on a bundle, resumes behind its first match
runRule_resumed(rule, c) ==
    [k \in 1..(IF b = 0 THEN Len(c[rule.id]) ELSE 0) |->
        spread([id |-> rule.id, title |-> rule.title, severity |-> rule.severity],
               c[rule.id][k])]

\* rule.run(code).map(f => ({ id, title, severity, ...f }))
runRule(rule, c) ==
    [k \in 1..Len(c[rule.id]) |->
        spread([id |-> rule.id, title |-> rule.title, severity |-> rule.severity],
               c[rule.id][k])]

\* variant: findings.length > maxFindings
capReached_gt(n, maxFindings) == n > maxFindings

\* if (findings.length >= maxFindings) break
capReached(n, maxFindings) == n >= maxFindings

\* variant: the blocking test reads the displayed list
blockingOf_displayed(full, displayed, failLevel) == someBlocking(displayed, failLevel)

\* the blocking test reads the full list, not the displayed one
blockingOf(full, displayed, failLevel) == someBlocking(full, failLevel)

\* variant: the flag of the last bundle replaces the overall flag
mergeBlocking_last(blocking, overall) == blocking

\* if (hasBlocking) hasBlockingFindings = true
mergeBlocking(blocking, overall) == IF blocking THEN TRUE ELSE overall

\* rule.run(code) raises an error instead of returning its matches
raises(rule) == rule.id = faulty

\* variant: the tag is assigned to the finding itself, f.bundle = bundlePath
mapSource_assigned(fds, bundlePath) ==
    [k \in 1..Len(fds) |-> spread(fds[k], [bundle |-> bundlePath])]

\* the list that findings.map(f => ({ ...f, bundle })) was called on, after
\* the call: map builds a new list and the spread a new object for every
\* finding, so the list and its findings are as before
mapSource(fds, bundlePath) == fds

\* variant: every finding is tagged with the same path
tagBundle_fixed(fds, bundlePath) ==
    [k \in 1..Len(fds) |-> spread(fds[k], [bundle |-> 0])]

\* findings.map(f => ({ ...f, bundle: bundlePath }))
tagBundle(fds, bundlePath) ==
    [k \in 1..Len(fds) |-> spread(fds[k], [bundle |-> bundlePath])]

(***************************************************************************)
(* Strings, bin/utils/scan-helpers.js.  A string is the sequence of its    *)
(* UTF-16 code units.                                                      *)
(***************************************************************************)
LF == 10

CR == 13

SP == 32

\* the code units lo..hi in order
Units(lo, hi) == [k \in 1..(hi - lo + 1) |-> lo + k - 1]

Min(x, y) == IF x <= y THEN x ELSE y

Max(x, y) == IF x >= y THEN x ELSE y

isHighSurrogate(u) == u \in 55296..56319

isLowSurrogate(u) == u \in 56320..57343

RECURSIVE codePoints(_)
\* for (const ch of str): the string iterator yields code points, a
\* surrogate pair being one of them
codePoints(str) ==
    IF str = << >> THEN << >>
    ELSE IF Len(str) >= 2 /\ isHighSurrogate(str[1]) /\ isLowSurrogate(str[2])
         THEN <<65536 + (str[1] - 55296) * 1024 + (str[2] - 56320)>>
                 \o codePoints(SubSeq(str, 3, Len(str)))
         ELSE <<str[1]>> \o codePoints(Tail(str))

RECURSIVE Log2(_)
\* Math.log2 of a power of two
Log2(n) == IF n <= 1 THEN 0 ELSE 1 + Log2(n \div 2)

RECURSIVE IsPow2(_)
IsPow2(n) == n = 1 \/ (n > 1 /\ n % 2 = 0 /\ IsPow2(n \div 2))

RECURSIVE entropyLoop(_, _, _)
\* for (const [, count] of map) { p = count / len; ent -= p * log2(p) }:
\* with len / count a power of two, -p * log2(p) is
\* count * log2(len / count) / len, computed without rounding
entropyLoop(map, keys, len) ==
    IF keys = {} THEN 0
    ELSE LET ch == CHOOSE x \in keys : TRUE
         IN  map[ch] * Log2(len \div map[ch]) + entropyLoop(map, keys \ {ch}, len)

\* shannonEntropy(str), as the fraction num / den
shannonEntropy(str) ==
    LET cps == codePoints(str)
        map == [ch \in {cps[k] : k \in DOMAIN cps} |->
                   Cardinality({k \in DOMAIN cps : cps[k] = ch})]
        len == IF Len(str) = 0 THEN 1 ELSE Len(str)
    IN  [num |-> entropyLoop(map, DOMAIN map, len), den |-> len]

\* ent >= tenths / 10
entropyGte(ent, tenths) == 10 * ent.num >= tenths * ent.den

\* /^[A-Za-z0-9+/=]+$/
maybeBase64ish(s) ==
    /\ s # << >>
    /\ \A k \in DOMAIN s :
          s[k] \in (65..90) \cup (97..122) \cup (48..57) \cup {43, 47, 61}

\* /^[a-f0-9]+$/i
maybeHexish(s) ==
    /\ s # << >>
    /\ \A k \in DOMAIN s : s[k] \in (97..102) \cup (65..70) \cup (48..57)

\* s.slice(start, end) for 0 <= start and 0 <= end
slice(s, start, end) == SubSeq(s, Min(start, Len(s)) + 1, Min(end, Len(s)))

\* .replace(/\n/g, ' ')
replaceNewlines(s) == [k \in DOMAIN s |-> IF s[k] = LF THEN SP ELSE s[k]]

\* makeSnippet(code, idx, context = 60)
makeSnippet(text, idx, context) ==
    LET start == Max(0, idx - context)
        end == Min(Len(text), idx + context)
    IN  replaceNewlines(slice(text, start, end))

DefaultContext == 60

\* the marker of lupin.js line 89: the horizontal ellipsis
Ellipsis == <<8230>>

\* the marker of scan-helpers.js line 52: the three characters that the
\* bytes of the ellipsis give when read as Windows-1252
GarbledEllipsis == <<226, 8364, 166>>

slicePreviewWith(marker, s, max) ==
    IF Len(s) <= max THEN s
    ELSE slice(s, 0, max \div 2) \o marker
            \o slice(s, Len(s) - (max \div 2), Len(s))

\* slicePreview(s, max = 100) of scan-helpers.js, used by the detectors
slicePreview(s, max) == slicePreviewWith(GarbledEllipsis, s, max)

\* slicePreview(s, max = 100) of lupin.js, used by the formatter
formatterSlicePreview(s, max) == slicePreviewWith(Ellipsis, s, max)

isWhiteSpace(u) == u \in {9, 10, 11, 12, 13, 32, 160, 8232, 8233, 65279}

RECURSIVE trimStart(_)
trimStart(s) ==
    IF s # << >> /\ isWhiteSpace(Head(s)) THEN trimStart(Tail(s)) ELSE s

RECURSIVE trimEnd(_)
trimEnd(s) ==
    IF s # << >> /\ isWhiteSpace(s[Len(s)])
    THEN trimEnd(SubSeq(s, 1, Len(s) - 1)) ELSE s

\* value.trim()
trim(s) == trimEnd(trimStart(s))

\* /^[\w\-\.:/]+$/
simpleToken(s) ==
    /\ s # << >>
    /\ \A k \in DOMAIN s :
          s[k] \in (48..57) \cup (65..90) \cup (97..122) \cup {95, 45, 46, 58, 47}

\* KEY-OTHER, the body of the loop for one string literal: value is the
\* text between the quotes, idx the index of the match
KEY_OTHER(value, idx) ==
    LET cleaned == trim(value)
        ent == shannonEntropy(cleaned)
        isLong == Len(cleaned) >= 20
        looksEncoded == maybeBase64ish(cleaned) \/ maybeHexish(cleaned)
    IN  IF cleaned = << >> THEN << >>
        ELSE IF simpleToken(cleaned) /\ Len(cleaned) < 24 THEN << >>
        ELSE IF (entropyGte(ent, 40) /\ (looksEncoded \/ isLong))
                   \/ entropyGte(ent, 45)
        THEN <<withMeta(makeFinding("High-entropy string detected", idx,
                                    slicePreview(cleaned, 120)),
                        ent, Len(cleaned))>>
        ELSE << >>

(***************************************************************************)
(* Inputs of the string helpers.                                           *)
(***************************************************************************)
Classes == {"hex", "letter", "plus", "slash", "ident", "other", "astral"}

\* the characters of a class, each the sequence of its code units:
\* hexadecimal digits, the other letters, + and =, the slash, _ - . :,
\* Latin-1 symbols and letters, supplementary characters
CharsOf(cls) ==
    IF cls = "hex"
    THEN [k \in 1..22 |-> <<(Units(48, 57) \o Units(97, 102) \o Units(65, 70))[k]>>]
    ELSE IF cls = "letter"
    THEN [k \in 1..40 |-> <<(Units(103, 122) \o Units(71, 90))[k]>>]
    ELSE IF cls = "plus" THEN << <<43>>, <<61>> >>
    ELSE IF cls = "slash" THEN << <<47>> >>
    ELSE IF cls = "ident" THEN << <<95>>, <<45>>, <<46>>, <<58>> >>
    ELSE IF cls = "other" THEN [k \in 1..64 |-> <<160 + k>>]
    ELSE [k \in 1..64 |-> <<55296 + k, 56320 + k>>]

\* character counts: distinct characters that occur count times each
Group(count, distinct) == [count |-> count, distinct |-> distinct]

Profiles ==
    {<<Group(1, 16)>>, <<Group(1, 32)>>, <<Group(1, 64)>>, <<Group(2, 16)>>,
     <<Group(1, 16), Group(2, 8)>>, <<Group(4, 8)>>, <<Group(2, 8)>>,
     <<Group(3, 16)>>, <<Group(1, 8), Group(2, 4)>>, <<Group(16, 1)>>,
     <<Group(32, 1)>>}

RECURSIVE Distinct(_)
Distinct(groups) ==
    IF groups = << >> THEN 0 ELSE Head(groups).distinct + Distinct(Tail(groups))

RECURSIVE repeat(_, _)
repeat(ch, n) == IF n = 0 THEN << >> ELSE ch \o repeat(ch, n - 1)

RECURSIVE Spell(_, _)
\* the string in which the characters occur with the counts of the groups
Spell(groups, chars) ==
    IF groups = << >> THEN << >>
    ELSE LET g == Head(groups)
         IN  IF g.distinct = 0 THEN Spell(Tail(groups), chars)
             ELSE repeat(Head(chars), g.count)
                     \o Spell(<<Group(g.count, g.distinct - 1)>> \o Tail(groups),
                              Tail(chars))

\* a string of the profile over the characters of class main, its first
\* character taken from class odd instead
Literal(profile, main, odd) ==
    LET base == SubSeq(CharsOf(main), 1, Distinct(profile))
    IN  Spell(profile, IF odd = "none" THEN base
                       ELSE <<CharsOf(odd)[1]>> \o Tail(base))

\* every character's share of the string is a negative power of two, by
\* code units and by characters, so that the entropy is free of rounding
Dyadic(s) ==
    LET cps == codePoints(s)
    IN  \A ch \in {cps[k] : k \in DOMAIN cps} :
           LET n == Cardinality({k \in DOMAIN cps : cps[k] = ch})
           IN  /\ Len(s) % n = 0 /\ IsPow2(Len(s) \div n)
               /\ Len(cps) % n = 0 /\ IsPow2(Len(cps) \div n)

Literals ==
    {s \in {Literal(x[1], x[2], x[3]) :
              x \in {y \in Profiles \X Classes \X (Classes \cup {"none"}) :
                        /\ Distinct(y[1]) <= Len(CharsOf(y[2]))
                        /\ y[3] # y[2]}} :
        Dyadic(s)}

\* the text between the quotes: a literal, bare or inside blanks, or
\* blanks alone
Values ==
    Literals \cup {<<SP>> \o s \o <<SP, SP>> : s \in Literals}
             \cup {repeat(<<SP>>, 12)}

\* texts of letters with line breaks in them
TextLengths == {0, 1, 60, 61, 119, 120, 121, 130}

Plain(n) == [k \in 1..n |-> 97]

TextsOf(n) ==
    {Plain(n)}
       \cup {[Plain(n) EXCEPT ![p] = LF] : p \in {1, 61, n} \cap (1..n)}
       \cup {[Plain(n) EXCEPT ![p] = CR, ![p + 1] = LF] :
                p \in {1, 60} \cap (1..(n - 1))}

Indexes(n) == {0} \cup ({1, 59, 60, 61, n - 1} \cap (0..(n - 1)))

\* strings of distinct characters
PreviewLengths == {0, 1, 2, 47, 48, 49, 100, 101, 120, 121, 122, 130}

PreviewCaps == {0, 1, 2, 3, 47, 48, 100, 120, 121}

Marked(n) == [k \in 1..n |-> 256 + k]

KeyOtherCalls == {[fn |-> "KEY-OTHER", value |-> v, idx |-> 0] : v \in Values}

SnippetCalls ==
    UNION {{[fn |-> "makeSnippet", text |-> t, idx |-> x] :
               t \in TextsOf(n), x \in Indexes(n)} : n \in TextLengths}

PreviewCalls ==
    {[fn |-> f, s |-> Marked(n), max |-> m] :
        f \in {"slicePreview", "formatter.slicePreview"},
        n \in PreviewLengths, m \in PreviewCaps}

(***************************************************************************)
(* Programmatic API, src/index.js.                                         *)
(***************************************************************************)
RECURSIVE ruleLoop(_, _, _, _, _)
\* for (const rule of rules) { findings.push(...res); if (...) break; }
ruleLoop(rules, c, k, acc, maxFindings) ==
    IF k > Len(rules) THEN acc
    ELSE LET acc2 == acc \o runRule(rules[k], c)
         IN  IF capReached(Len(acc2), maxFindings) THEN acc2
             ELSE ruleLoop(rules, c, k + 1, acc2, maxFindings)

\* body of scanBundle once the text is read, over a given rule list
scanCode(rules, c, bundlePath, options) ==
    LET raw == ruleLoop(rules, c, 1, << >>, options.maxFindings)
        sorted == sortFindings(deduplicateFindings(raw))
        filtered == filterBySeverity(sorted, options.showLevel)
    IN  [kind |-> "ok",
         bundlePath |-> bundlePath,
         totalFindings |-> Len(sorted),
         displayedFindings |-> Len(filtered),
         findings |-> filtered,
         allFindings |-> sorted,
         hasBlockingFindings |-> blockingOf(sorted, filtered, options.failLevel),
         failLevel |-> options.failLevel,
         showLevel |-> options.showLevel,
         severityBreakdown |-> severityBreakdown(sorted)]

RECURSIVE ruleLoopThrows(_, _, _, _, _)
\* some rule.run(code) that the loop reaches raises an error
ruleLoopThrows(rules, c, k, acc, maxFindings) ==
    IF k > Len(rules) THEN FALSE
    ELSE IF raises(rules[k]) THEN TRUE
    ELSE LET acc2 == acc \o runRule(rules[k], c)
         IN  IF capReached(Len(acc2), maxFindings) THEN FALSE
             ELSE ruleLoopThrows(rules, c, k + 1, acc2, maxFindings)

scanBundle(files, bundlePath, options) ==
    IF ~files[bundlePath].exists
    THEN [kind |-> "error", message |-> "Bundle not found"]
    ELSE IF ruleLoopThrows(getRules, files[bundlePath].content, 1, << >>,
                           options.maxFindings)
    THEN [kind |-> "error", message |-> "detector error"]
    ELSE scanCode(getRules, files[bundlePath].content, bundlePath, options)

RECURSIVE flatTagged(_)
\* results.flatMap(r => r.allFindings.map(f => ({ ...f, bundle: r.bundlePath })))
flatTagged(results) ==
    IF results = << >> THEN << >>
    ELSE tagBundle(Head(results).allFindings, Head(results).bundlePath)
            \o flatTagged(Tail(results))

scanMultipleBundles(files, bundlePaths, options) ==
    LET results == [k \in 1..Len(bundlePaths) |-> scanBundle(files, bundlePaths[k], options)]
    IN  IF \E k \in 1..Len(results) : results[k].kind = "error"
        THEN results[CHOOSE k \in 1..Len(results) :
                        /\ results[k].kind = "error"
                        /\ \A j \in 1..(k - 1) : results[j].kind # "error"]
        ELSE LET all == flatTagged(results)
             IN  [kind |-> "ok",
                  bundles |-> [k \in DOMAIN results |->
                                 [results[k] EXCEPT !.allFindings =
                                     mapSource(@, results[k].bundlePath)]],
                  totalBundles |-> Len(bundlePaths),
                  totalFindings |-> Len(all),
                  allFindings |-> all,
                  hasBlockingFindings |->
                      \E k \in 1..Len(results) : results[k].hasBlockingFindings,
                  severityBreakdown |-> severityBreakdown(all)]

(***************************************************************************)
(* Initial states: the options are parsed and the files are on disk; the   *)
(* process then runs the CLI main or calls the API.                        *)
(***************************************************************************)
NoReport == [kind |-> "none"]

\* no helper function is being called
NoCall == [fn |-> "none"]

NoReturn == [done |-> FALSE]

NoResult == [kind |-> "none"]

\* level values given on the command line or in the options: names of
\* severities, an upper-case name, a misspelt name, the empty string
LevelSamples == {"info", "high", "HIGH", "hihg", ""}

LevelSamplePairs == LevelSamples \X LevelSamples

\* fail level and show level: at least one of the two is the default
LevelPairs == {lp \in Levels \X Levels : lp[1] = "medium" \/ lp[2] = "medium"}

OptionSets(bundle, levelPairs) ==
    {[bundle |-> bundle, json |-> j, failLevel |-> lp[1], showLevel |-> lp[2],
      maxFindings |-> m] :
        j \in BOOLEAN, lp \in levelPairs, m \in MaxFindingsChoices}

\* files 1..n hold a text or are gone, the other paths do not exist
FilesOf(n, codes) ==
    {[p \in Paths |-> IF p <= n THEN g[p] ELSE NoFile] :
        g \in [1..n -> {NoFile} \cup {File(c) : c \in codes}]}

RECURSIVE RawInFiles(_, _)
RawInFiles(f, n) ==
    IF n = 0 THEN 0 ELSE RawTotal(f[n].content) + RawInFiles(f, n - 1)

InitRun ==
    /\ pc = "main"
    /\ bundlesToScan = << >>
    /\ b = 0
    /\ code = EmptyCode
    /\ i = 0
    /\ findingsRaw = << >>
    /\ findings = << >>
    /\ displayFindings = << >>
    /\ severityCounts = EmptyCounts
    /\ hasBlocking = FALSE
    /\ allFindings = << >>
    /\ hasBlockingFindings = FALSE
    /\ report = NoReport
    /\ console = << >>
    /\ err = "none"
    /\ exitCode = -1
    /\ apiResult = NoResult

\* a run of the scanner: no helper function is called on its own
InitRest ==
    /\ InitRun
    /\ call = NoCall
    /\ ret = NoReturn

\* lupin --bundle <path>, or scanBundle(path, options)
InitManual ==
    /\ opts \in OptionSets(1, LevelPairs)
    /\ fs \in FilesOf(1, CodesOf(MaxRaw, TRUE))
    /\ faulty = "none"
    /\ foundBundles = << >>
    /\ InitRest

\* lupin without --bundle, or scanMultipleBundles(paths, options), over
\* the files 1..n that discovery finds
InitAuto ==
    /\ opts \in OptionSets(0, LevelPairs)
    /\ \E n \in 0..MaxBundles :
          /\ foundBundles = [k \in 1..n |-> k]
          /\ fs \in {f \in FilesOf(n, CodesOf(MaxRawFound, FALSE)) :
                        RawInFiles(f, MaxBundles) <= MaxRawFound}
    /\ faulty = "none"
    /\ InitRest

Init == InitManual \/ InitAuto

\* default levels, a small or the default cap, and a registry in which one
\* detector may raise an error on every text it is run on
FaultOptions(bundle) ==
    {o \in OptionSets(bundle, {<<"medium", "medium">>}) :
        o.maxFindings \in {1, DefaultMaxFindings}}

InitFault ==
    /\ faulty \in RuleIds \cup {"none"}
    /\ \/ /\ opts \in FaultOptions(1)
          /\ fs \in FilesOf(1, CodesOf(MaxRaw, FALSE))
          /\ foundBundles = << >>
       \/ /\ opts \in FaultOptions(0)
          /\ \E n \in 0..MaxBundles :
                /\ foundBundles = [k \in 1..n |-> k]
                /\ fs \in {f \in FilesOf(n, CodesOf(MaxRawFound, FALSE)) :
                              RawInFiles(f, MaxBundles) <= MaxRawFound}
    /\ InitRest

(***************************************************************************)
(* CLI main, bin/lupin.js.                                                 *)
(***************************************************************************)
\* catch (err) { console.error(...); process.exit(1); }
Throw(message, out) ==
    /\ err' = message
    /\ console' = Append(out, "error")
    /\ exitCode' = 1
    /\ pc' = "exited"

\* manual mode: bundlesToScan = [path.resolve(opts.bundle)]
StartManual ==
    /\ pc = "main" /\ opts.bundle # 0
    /\ UNCHANGED <<call, ret>>
    /\ bundlesToScan' = <<opts.bundle>>
    /\ pc' = "load"
    /\ UNCHANGED <<opts, fs, faulty, foundBundles, b, code, i, findingsRaw,
                   findings, displayFindings, severityCounts, hasBlocking,
                   allFindings, hasBlockingFindings, report, console, err,
                   exitCode, apiResult>>

\* answers of the user to the prompts of the auto-discovery mode
Answers == {"badtype", "y", "other"} \cup {ToString(n) : n \in 0..(MaxBundles + 1)}

AnswerNumber(a) == CHOOSE n \in 0..(MaxBundles + 1) : ToString(n) = a

\* auto-discovery mode: project type, findBundles, choice of the bundles
Discover ==
    /\ pc = "main" /\ opts.bundle = 0
    /\ UNCHANGED <<call, ret>>
    /\ \E scanAll \in BOOLEAN, answer \in Answers :
          IF answer = "badtype"
          THEN /\ Throw("Invalid project type", console)
               /\ UNCHANGED bundlesToScan
          ELSE IF Len(foundBundles) = 0
          THEN /\ console' = Append(console, "no bundles")
               /\ exitCode' = 1
               /\ pc' = "exited"
               /\ UNCHANGED <<err, bundlesToScan>>
          ELSE IF scanAll \/ Len(foundBundles) = 1 \/ answer = "y"
          THEN /\ bundlesToScan' = foundBundles
               /\ pc' = "load"
               /\ UNCHANGED <<console, err, exitCode>>
          ELSE IF answer = "other"
          THEN /\ bundlesToScan' = <<foundBundles[1]>>
               /\ pc' = "load"
               /\ UNCHANGED <<console, err, exitCode>>
          ELSE IF AnswerNumber(answer) - 1 >= 0
                  /\ AnswerNumber(answer) - 1 < Len(foundBundles)
          THEN /\ bundlesToScan' = <<foundBundles[AnswerNumber(answer)]>>
               /\ pc' = "load"
               /\ UNCHANGED <<console, err, exitCode>>
          ELSE /\ Throw("Invalid bundle number", console)
               /\ UNCHANGED bundlesToScan
    /\ UNCHANGED <<opts, fs, faulty, foundBundles, b, code, i, findingsRaw,
                   findings, displayFindings, severityCounts, hasBlocking,
                   allFindings, hasBlockingFindings, report, apiResult>>

\* variant: the rule index is declared outside the loop over the bundles
LoadBundle_keepIndex ==
    /\ pc = "load"
    /\ UNCHANGED <<call, ret>>
    /\ LET bundlePath == bundlesToScan[b + 1]
       IN  IF ~fs[bundlePath].exists
           THEN /\ Throw("Bundle not found", console)
                /\ UNCHANGED <<code, i, findingsRaw>>
           ELSE /\ code' = fs[bundlePath].content
                /\ findingsRaw' = << >>
                /\ pc' = IF i >= Len(RULES) THEN "report" ELSE "rules"
                /\ UNCHANGED <<console, err, exitCode, i>>
    /\ UNCHANGED <<opts, fs, faulty, foundBundles, bundlesToScan, b, findings,
                   displayFindings, severityCounts, hasBlocking, allFindings,
                   hasBlockingFindings, report, apiResult>>

\* variant: findingsRaw is declared outside the loop over the bundles
LoadBundle_keepRaw ==
    /\ pc = "load"
    /\ UNCHANGED <<call, ret>>
    /\ LET bundlePath == bundlesToScan[b + 1]
       IN  IF ~fs[bundlePath].exists
           THEN /\ Throw("Bundle not found", console)
                /\ UNCHANGED <<code, i, findingsRaw>>
           ELSE /\ code' = fs[bundlePath].content
                /\ i' = 0
                /\ pc' = IF Len(RULES) = 0 THEN "report" ELSE "rules"
                /\ UNCHANGED <<console, err, exitCode, findingsRaw>>
    /\ UNCHANGED <<opts, fs, faulty, foundBundles, bundlesToScan, b, findings,
                   displayFindings, severityCounts, hasBlocking, allFindings,
                   hasBlockingFindings, report, apiResult>>

\* const code = loadBundle(bundlePath); const findingsRaw = [];
LoadBundle ==
    /\ pc = "load"
    /\ UNCHANGED <<call, ret>>
    /\ LET bundlePath == bundlesToScan[b + 1]
       IN  IF ~fs[bundlePath].exists
           THEN /\ Throw("Bundle not found", console)
                /\ UNCHANGED <<code, i, findingsRaw>>
           ELSE /\ code' = fs[bundlePath].content
                /\ i' = 0
                /\ findingsRaw' = << >>
                /\ pc' = IF Len(RULES) = 0 THEN "report" ELSE "rules"
                /\ UNCHANGED <<console, err, exitCode>>
    /\ UNCHANGED <<opts, fs, faulty, foundBundles, bundlesToScan, b, findings,
                   displayFindings, severityCounts, hasBlocking, allFindings,
                   hasBlockingFindings, report, apiResult>>

\* variant: the cap is tested before the detector is invoked
RunRule_capFirst ==
    /\ pc = "rules" /\ i < Len(RULES)
    /\ UNCHANGED <<call, ret>>
    /\ IF capReached(Len(findingsRaw), opts.maxFindings)
       THEN /\ pc' = "report"
            /\ UNCHANGED <<findingsRaw, i, console, err, exitCode>>
       ELSE IF raises(RULES[i + 1])
       THEN /\ Throw("detector error", console)
            /\ UNCHANGED <<findingsRaw, i>>
       ELSE LET res == runRule(RULES[i + 1], code)
            IN  /\ findingsRaw' = findingsRaw \o res
                /\ i' = i + 1
                /\ pc' = IF i + 1 >= Len(RULES) THEN "report" ELSE "rules"
                /\ UNCHANGED <<console, err, exitCode>>
    /\ UNCHANGED <<opts, fs, faulty, foundBundles, bundlesToScan, b, code,
                   findings, displayFindings, severityCounts, hasBlocking,
                   allFindings, hasBlockingFindings, report, apiResult>>

\* one iteration of for (let i = 0; i < RULES.length; i++)
RunRule ==
    /\ pc = "rules" /\ i < Len(RULES)
    /\ UNCHANGED <<call, ret>>
    /\ IF raises(RULES[i + 1])
       THEN /\ Throw("detector error", console)
            /\ UNCHANGED <<findingsRaw, i>>
       ELSE LET res == runRule(RULES[i + 1], code)
            IN  /\ findingsRaw' = findingsRaw \o res
                /\ i' = i + 1
                /\ pc' = IF capReached(Len(findingsRaw \o res), opts.maxFindings)
                            \/ i + 1 >= Len(RULES)
                         THEN "report" ELSE "rules"
                /\ UNCHANGED <<console, err, exitCode>>
    /\ UNCHANGED <<opts, fs, faulty, foundBundles, bundlesToScan, b, code,
                   findings, displayFindings, severityCounts, hasBlocking,
                   allFindings, hasBlockingFindings, report, apiResult>>

\* variant: a report is written for every bundle of every run
writesSingle_always(json, n) == json

\* if (opts.json !== false && bundlesToScan.length === 1)
writesSingle(json, n) == json /\ n = 1

\* if (opts.json !== false && bundlesToScan.length > 1)
writesMulti(json, n) == json /\ n > 1

\* variant: the report holds the displayed findings
SingleReport_displayed(bundlePath, fds, counts, shown, showLevel) ==
    [kind |-> "single",
     meta |-> [file |-> bundlePath],
     findings |-> shown,
     summary |-> [total |-> Len(fds), severityBreakdown |-> counts,
                  displayedOnScreen |-> Len(shown), showLevel |-> showLevel]]

\* JSON report of a single-bundle run
SingleReport(bundlePath, fds, counts, shown, showLevel) ==
    [kind |-> "single",
     meta |-> [file |-> bundlePath],
     findings |-> fds,
     summary |-> [total |-> Len(fds), severityBreakdown |-> counts,
                  displayedOnScreen |-> Len(shown), showLevel |-> showLevel]]

\* rest of the loop body: dedup, sort, display, merge, report, fail level
ReportBundle ==
    /\ pc = "report"
    /\ UNCHANGED <<call, ret>>
    /\ LET bundlePath == bundlesToScan[b + 1]
           sorted == sortFindings(deduplicateFindings(findingsRaw))
           showLevel == toLowerCase(orDefault(opts.showLevel))
           shown == filterBySeverity(sorted, showLevel)
           counts == severityBreakdown(sorted)
           willWrite == writesSingle(opts.json, Len(bundlesToScan))
           failLevel == toLowerCase(orDefault(opts.failLevel))
           blocking == blockingOf(sorted, shown, failLevel)
           out == Append(console, "results")
           kept == mapSource(sorted, bundlePath)
           keptShown == mapSource(shown, bundlePath)
       IN  /\ findings' = kept
           /\ displayFindings' = keptShown
           /\ severityCounts' = counts
           /\ allFindings' = allFindings \o tagBundle(sorted, bundlePath)
           /\ \E writeOk \in BOOLEAN :
                 IF willWrite /\ ~writeOk
                 THEN /\ Throw("write failed", out)
                      /\ UNCHANGED <<report, hasBlocking, hasBlockingFindings, b>>
                 ELSE /\ report' = IF willWrite
                                   THEN SingleReport(bundlePath, kept, counts,
                                                     keptShown, showLevel)
                                   ELSE report
                      /\ console' = IF willWrite THEN Append(out, "report written")
                                    ELSE out
                      /\ hasBlocking' = blocking
                      /\ hasBlockingFindings' = mergeBlocking(blocking, hasBlockingFindings)
                      /\ b' = b + 1
                      /\ pc' = IF b + 1 < Len(bundlesToScan) THEN "load" ELSE "finish"
                      /\ UNCHANGED <<err, exitCode>>
    /\ UNCHANGED <<opts, fs, faulty, foundBundles, bundlesToScan, code, i,
                   findingsRaw, apiResult>>

\* JSON report of a multi-bundle run
MultiReport(fds, showLevel) ==
    [kind |-> "multi",
     bundles |-> Len(bundlesToScan),
     totalFindings |-> Len(fds),
     findings |-> fds,
     summary |-> [severityBreakdown |-> severityBreakdown(fds),
                  showLevel |-> showLevel]]

\* after the loop: multi-bundle report, summary, verdict and exit code
FinishRun ==
    /\ pc = "finish"
    /\ UNCHANGED <<call, ret>>
    /\ LET willWrite == writesMulti(opts.json, Len(bundlesToScan))
       IN  \E writeOk \in BOOLEAN :
              IF willWrite /\ ~writeOk
              THEN /\ Throw("write failed", console)
                   /\ UNCHANGED report
              ELSE /\ report' = IF willWrite
                                THEN MultiReport(allFindings,
                                                 orDefault(opts.showLevel))
                                ELSE report
                   /\ console' = console
                         \o (IF willWrite THEN <<"report written">> ELSE << >>)
                         \o (IF Len(bundlesToScan) > 1 THEN <<"summary">> ELSE << >>)
                         \o (IF hasBlockingFindings THEN <<"failed">> ELSE <<"passed">>)
                   /\ exitCode' = IF hasBlockingFindings THEN 1 ELSE 0
                   /\ pc' = "exited"
                   /\ UNCHANGED err
    /\ UNCHANGED <<opts, fs, faulty, foundBundles, bundlesToScan, b, code, i,
                   findingsRaw, findings, displayFindings, severityCounts,
                   hasBlocking, allFindings, hasBlockingFindings, apiResult>>

(***************************************************************************)
(* Calls of the programmatic API.                                          *)
(***************************************************************************)
ApiOptions == [maxFindings |-> opts.maxFindings, failLevel |-> opts.failLevel,
               showLevel |-> opts.showLevel]

CallScanBundle ==
    /\ pc = "main" /\ opts.bundle # 0
    /\ UNCHANGED <<call, ret>>
    /\ apiResult' = scanBundle(fs, opts.bundle, ApiOptions)
    /\ pc' = "returned"
    /\ UNCHANGED <<opts, fs, faulty, foundBundles, bundlesToScan, b, code, i,
                   findingsRaw, findings, displayFindings, severityCounts,
                   hasBlocking, allFindings, hasBlockingFindings, report,
                   console, err, exitCode>>

CallScanMultipleBundles ==
    /\ pc = "main" /\ opts.bundle = 0
    /\ UNCHANGED <<call, ret>>
    /\ apiResult' = scanMultipleBundles(fs, foundBundles, ApiOptions)
    /\ pc' = "returned"
    /\ UNCHANGED <<opts, fs, faulty, foundBundles, bundlesToScan, b, code, i,
                   findingsRaw, findings, displayFindings, severityCounts,
                   hasBlocking, allFindings, hasBlockingFindings, report,
                   console, err, exitCode>>

Next ==
    \/ StartManual
    \/ Discover
    \/ LoadBundle
    \/ RunRule
    \/ ReportBundle
    \/ FinishRun
    \/ CallScanBundle
    \/ CallScanMultipleBundles

Spec == Init /\ [][Next]_vars

\* one bundle given with --bundle
NextManual ==
    \/ StartManual
    \/ LoadBundle
    \/ RunRule
    \/ ReportBundle
    \/ FinishRun
    \/ CallScanBundle

SpecManual == InitManual /\ [][NextManual]_vars

\* the bundles that discovery finds
NextAuto ==
    \/ Discover
    \/ LoadBundle
    \/ RunRule
    \/ ReportBundle
    \/ FinishRun
    \/ CallScanMultipleBundles

SpecAuto == InitAuto /\ [][NextAuto]_vars

\* runs in which a detector may raise an error
SpecFault == InitFault /\ [][Next]_vars

\* one bundle, with level values of every kind
InitLevels ==
    /\ opts \in OptionSets(1, LevelSamplePairs)
    /\ fs \in FilesOf(1, CodesOf(MaxRaw, FALSE))
    /\ faulty = "none"
    /\ foundBundles = << >>
    /\ InitRest

SpecLevels == InitLevels /\ [][NextManual]_vars

(***************************************************************************)
(* The string helpers and the high-entropy detector, called on their own.  *)
(***************************************************************************)
InitHelpers ==
    /\ call \in KeyOtherCalls \cup SnippetCalls \cup PreviewCalls
    /\ ret = NoReturn
    /\ opts = [bundle |-> 1, json |-> TRUE, failLevel |-> "medium",
               showLevel |-> "medium", maxFindings |-> DefaultMaxFindings]
    /\ fs = [p \in Paths |-> NoFile]
    /\ faulty = "none"
    /\ foundBundles = << >>
    /\ InitRun

Return(value) ==
    /\ ~ret.done
    /\ ret' = [done |-> TRUE, value |-> value]
    /\ UNCHANGED call
    /\ UNCHANGED runVars

\* KEY-OTHER.run on a text that holds one string literal
CallKeyOther ==
    /\ call.fn = "KEY-OTHER"
    /\ Return(KEY_OTHER(call.value, call.idx))

\* makeFinding(message, idx, code, matchText): snippet: makeSnippet(code, idx)
CallMakeSnippet ==
    /\ call.fn = "makeSnippet"
    /\ Return(makeSnippet(call.text, call.idx, DefaultContext))

CallSlicePreview ==
    /\ call.fn \in {"slicePreview", "formatter.slicePreview"}
    /\ Return(IF call.fn = "slicePreview"
              THEN slicePreview(call.s, call.max)
              ELSE formatterSlicePreview(call.s, call.max))

NextHelpers ==
    \/ CallKeyOther
    \/ CallMakeSnippet
    \/ CallSlicePreview

SpecHelpers == InitHelpers /\ [][NextHelpers]_vars

(***************************************************************************)
(* The pipeline over a registry given in any order.                        *)
(***************************************************************************)
\* the orders in which the detectors of RULES can be registered
Orderings ==
    {[k \in DOMAIN RULES |-> RULES[q[k]]] :
        q \in {p \in [DOMAIN RULES -> DOMAIN RULES] :
                  \A j, k \in DOMAIN RULES : j # k => p[j] # p[k]}}

ScanCalls ==
    {[fn |-> "scan", rules |-> r, code |-> c,
      options |-> [maxFindings |-> m, failLevel |-> "medium",
                   showLevel |-> "medium"]] :
        r \in Orderings, c \in CodesOf(MaxRaw, TRUE), m \in MaxFindingsChoices}

InitRegistry ==
    /\ call \in ScanCalls
    /\ ret = NoReturn
    /\ opts = [bundle |-> 1, json |-> TRUE, failLevel |-> "medium",
               showLevel |-> "medium", maxFindings |-> call.options.maxFindings]
    /\ fs = [p \in Paths |-> IF p = 1 THEN File(call.code) ELSE NoFile]
    /\ faulty = "none"
    /\ foundBundles = << >>
    /\ InitRun

\* rule loop, dedup, sort and filter over the registry call.rules
CallScan ==
    /\ call.fn = "scan"
    /\ Return(scanCode(call.rules, call.code, 1, call.options))

NextRegistry == CallScan

SpecRegistry == InitRegistry /\ [][NextRegistry]_vars

(***************************************************************************)
(* Properties.                                                             *)
(***************************************************************************)
\* info < low < medium < high < critical
SevRank == [info |-> 0, low |-> 1, medium |-> 2, high |-> 3, critical |-> 4]

AtOrAbove(sev, level) == SevRank[sev] >= SevRank[level]

\* the loop-local values of the CLI belong to one and the same bundle
Reported == pc \in {"load", "finish", "exited"}

\* per-bundle results returned by the API call
ApiBundles ==
    IF apiResult.kind # "ok" THEN << >>
    ELSE IF "bundles" \in DOMAIN apiResult THEN apiResult.bundles
    ELSE <<apiResult>>

\* C1: the blocking flag of a bundle is true exactly when some finding of
\* the full deduplicated list is at or above failLevel (false for an empty
\* list), in the CLI and in scanBundle
C1_BlockingIffFullList ==
    /\ b > 0 =>
          (hasBlocking <=>
              \E k \in DOMAIN findings : AtOrAbove(findings[k].severity, opts.failLevel))
    /\ \A r \in DOMAIN ApiBundles :
          ApiBundles[r].hasBlockingFindings <=>
              \E k \in DOMAIN ApiBundles[r].allFindings :
                  AtOrAbove(ApiBundles[r].allFindings[k].severity, opts.failLevel)

\* a blocking bundle none of whose findings is displayed
C1_Witness ==
    /\ b > 0 /\ hasBlocking
    /\ findings # << >> /\ displayFindings = << >>

\* C2: a terminated CLI run has exit code 1 exactly when some finding of a
\* scanned bundle is at or above the fail level, and 0 otherwise
C2_ExitCodeIffBlocking ==
    pc = "exited" =>
        /\ exitCode \in {0, 1}
        /\ exitCode = 1 <=>
              \E k \in DOMAIN allFindings :
                  AtOrAbove(allFindings[k].severity, opts.failLevel)

\* key of a finding as a triple
KeyOf(f) == <<f.id, IF f.match # "" THEN f.match ELSE f.message,
              f.position \div 50>>

\* index of the first raw finding with the key of raw finding k
FirstOfKey(raw, k) ==
    CHOOSE j \in 1..k :
        /\ KeyOf(raw[j]) = KeyOf(raw[k])
        /\ \A h \in 1..(j - 1) : KeyOf(raw[h]) # KeyOf(raw[k])

Range(seq) == {seq[k] : k \in DOMAIN seq}

\* C3: after deduplication no two findings share a key, and the survivor
\* of every key is the raw finding that came first with that key
C3_DedupFirstWins ==
    Reported =>
        /\ \A j, k \in DOMAIN findings :
              j # k => KeyOf(findings[j]) # KeyOf(findings[k])
        /\ Range(findings) =
              {findingsRaw[FirstOfKey(findingsRaw, k)] : k \in DOMAIN findingsRaw}

\* two different raw findings with one key, the first one kept
C3_Witness ==
    /\ Reported /\ Len(findingsRaw) = 2 /\ Len(findings) = 1
    /\ findingsRaw[1] # findingsRaw[2]
    /\ findings[1] = findingsRaw[1]

\* number of findings of the report that carry the key of f or of g
FindingsFor(f, g) ==
    Cardinality({x \in DOMAIN findings :
                    KeyOf(findings[x]) \in {KeyOf(f), KeyOf(g)}})

Distance(p, q) == IF p >= q THEN p - q ELSE q - p

\* pairs of raw findings of one detector with the same matched text
SameMatchPairs ==
    {jk \in (DOMAIN findingsRaw) \X (DOMAIN findingsRaw) :
        /\ jk[1] < jk[2]
        /\ findingsRaw[jk[1]].id = findingsRaw[jk[2]].id
        /\ findingsRaw[jk[1]].match = findingsRaw[jk[2]].match
        /\ findingsRaw[jk[1]].match # ""}

\* C4 as claimed: two raw findings of one detector with the same matched
\* text give one finding when at most 50 apart and two when further apart
C4_Within50OneElseTwo ==
    Reported =>
        \A jk \in SameMatchPairs :
            LET f == findingsRaw[jk[1]]
                g == findingsRaw[jk[2]]
            IN  /\ Distance(f.position, g.position) <= 50 => FindingsFor(f, g) = 1
                /\ Distance(f.position, g.position) > 50 => FindingsFor(f, g) = 2

\* C4 amended: they give one finding when their positions lie in the same
\* window floor(position / 50) and two otherwise, so two when more than 50
\* apart and also when at most 50 apart across a window border
C4_SameWindowOneElseTwo ==
    Reported =>
        \A jk \in SameMatchPairs :
            LET f == findingsRaw[jk[1]]
                g == findingsRaw[jk[2]]
            IN  /\ f.position \div 50 = g.position \div 50 => FindingsFor(f, g) = 1
                /\ f.position \div 50 # g.position \div 50 => FindingsFor(f, g) = 2
                /\ Distance(f.position, g.position) > 50 => FindingsFor(f, g) = 2

\* the same match at 49 and at 50: one apart, two findings
C4_Witness ==
    /\ Reported /\ Len(findings) = 2
    /\ \E jk \in SameMatchPairs :
          /\ findingsRaw[jk[1]].position = 49
          /\ findingsRaw[jk[2]].position = 50

\* index of the first raw finding equal to f
RawIndex(f) ==
    CHOOSE x \in DOMAIN findingsRaw :
        findingsRaw[x] = f /\ \A y \in 1..(x - 1) : findingsRaw[y] # f

\* C5: the full list is ordered by severity descending, then position
\* ascending, and findings that tie on both keep their order of emission
C5_SortedStable ==
    Reported =>
        \A j, k \in DOMAIN findings :
            j < k =>
                LET f == findings[j]
                    g == findings[k]
                IN  \/ SevRank[f.severity] > SevRank[g.severity]
                    \/ /\ SevRank[f.severity] = SevRank[g.severity]
                       /\ f.position < g.position
                    \/ /\ SevRank[f.severity] = SevRank[g.severity]
                       /\ f.position = g.position
                       /\ RawIndex(f) < RawIndex(g)

\* two different findings that tie on severity and position
C5_Witness ==
    /\ Reported /\ Len(findings) = 2
    /\ findings[1] # findings[2]
    /\ findings[1].severity = findings[2].severity
    /\ findings[1].position = findings[2].position

RECURSIVE SumOver(_, _)
SumOver(counts, S) ==
    IF S = {} THEN 0
    ELSE LET s == CHOOSE t \in S : TRUE
         IN  counts[s] + SumOver(counts, S \ {s})

BreakdownMatches(counts, fds) ==
    /\ DOMAIN counts \subseteq Levels
    /\ SumOver(counts, DOMAIN counts) = Len(fds)
    /\ \A s \in Levels :
          (IF s \in DOMAIN counts THEN counts[s] ELSE 0)
              = Cardinality({k \in DOMAIN fds : fds[k].severity = s})

\* C6: the severity breakdown sums to the number of findings, counts every
\* severity exactly, and no more findings are displayed than exist
C6_BreakdownConsistent ==
    /\ Reported =>
          /\ BreakdownMatches(severityCounts, findings)
          /\ Len(displayFindings) <= Len(findings)
    /\ report.kind = "single" =>
          /\ BreakdownMatches(report.summary.severityBreakdown, report.findings)
          /\ report.summary.total = Len(report.findings)
          /\ report.summary.displayedOnScreen <= report.summary.total
    /\ \A r \in DOMAIN ApiBundles :
          /\ BreakdownMatches(ApiBundles[r].severityBreakdown, ApiBundles[r].allFindings)
          /\ ApiBundles[r].totalFindings = Len(ApiBundles[r].allFindings)
          /\ ApiBundles[r].displayedFindings <= ApiBundles[r].totalFindings

\* a report of two findings of which one is displayed
C6_Witness ==
    /\ report.kind = "single" /\ Len(findings) = 2
    /\ Len(displayFindings) = 1
    /\ Cardinality(DOMAIN severityCounts) = 2

\* the scan of the current bundle text as a function of the options
ScanWith(c, options) == scanCode(RULES, c, 0, options)

\* C7: a scan that differs only in showLevel gives the same full list,
\* breakdown, blocking flag and exit code; a scan that differs only in
\* failLevel gives the same displayed list
C7_ThresholdsIndependent ==
    /\ (pc \in {"load", "finish"} /\ b > 0) =>
          \A lv \in Levels :
              LET r1 == ScanWith(code, [ApiOptions EXCEPT !.showLevel = lv])
                  r2 == ScanWith(code, [ApiOptions EXCEPT !.failLevel = lv])
              IN  /\ r1.allFindings = findings
                  /\ r1.severityBreakdown = severityCounts
                  /\ r1.hasBlockingFindings = hasBlocking
                  /\ r2.findings = displayFindings
    /\ (pc = "exited" /\ err = "none" /\ b > 0) =>
          \A lv \in Levels :
              exitCode =
                  IF \E k \in DOMAIN bundlesToScan :
                        ScanWith(fs[bundlesToScan[k]].content,
                                 [ApiOptions EXCEPT !.showLevel = lv]).hasBlockingFindings
                  THEN 1 ELSE 0

\* a failing run that displays only part of its findings
C7_Witness ==
    /\ pc = "exited" /\ err = "none" /\ exitCode = 1
    /\ opts.showLevel # opts.failLevel
    /\ displayFindings # << >> /\ Len(displayFindings) < Len(findings)

RECURSIVE RawUpTo(_, _)
\* number of raw findings of the first k detectors on text c
RawUpTo(c, k) == IF k = 0 THEN 0 ELSE Len(c[RULES[k].id]) + RawUpTo(c, k - 1)

\* number of detectors invoked on text c: up to and including the first
\* one at which the count reaches maxFindings
ExpectedInvoked(c, maxFindings) ==
    IF \E k \in 1..Len(RULES) : RawUpTo(c, k) >= maxFindings
    THEN CHOOSE k \in 1..Len(RULES) :
            /\ RawUpTo(c, k) >= maxFindings
            /\ \A j \in 1..(k - 1) : RawUpTo(c, j) < maxFindings
    ELSE Len(RULES)

RECURSIVE Collected(_, _)
\* raw findings of the first k detectors on text c, in registry order
Collected(c, k) ==
    IF k = 0 THEN << >> ELSE Collected(c, k - 1) \o runRule(RULES[k], c)

\* C9: a detector other than the first is invoked only while the count is
\* below maxFindings; for every input the detectors invoked are determined
\* by that input alone, all they returned is collected, and every collected
\* raw finding is represented after deduplication
C9_CapStopsLaterDetectors ==
    /\ [][i' = i + 1 => (i = 0 \/ Len(findingsRaw) < opts.maxFindings)]_vars
    /\ [](pc = "report" =>
            /\ i = ExpectedInvoked(code, opts.maxFindings)
            /\ findingsRaw = Collected(code, i))
    /\ [](Reported =>
            \A k \in DOMAIN findingsRaw :
                \E j \in DOMAIN findings : KeyOf(findings[j]) = KeyOf(findingsRaw[k]))

\* the first input stopped at the cap, the second ran every detector
C9_Witness ==
    /\ pc = "report" /\ b = 1 /\ i = Len(RULES)
    /\ fs[bundlesToScan[1]].exists
    /\ ExpectedInvoked(fs[bundlesToScan[1]].content, opts.maxFindings) < Len(RULES)
    /\ RawTotal(fs[bundlesToScan[1]].content) > opts.maxFindings

\* C10: the result of one bundle scan never has more than maxFindings
\* findings
C10_AtMostMaxFindings ==
    /\ Reported => Len(findings) <= opts.maxFindings
    /\ \A r \in DOMAIN ApiBundles :
          ApiBundles[r].totalFindings <= opts.maxFindings

\* a finding with the path of its bundle added
Tagged(f, path) == [bundle |-> path] @@ f

TaggedAll(fds, path) == [k \in DOMAIN fds |-> Tagged(fds[k], path)]

\* full sorted list the CLI pipeline computes for text c under cap m
CliFindings(c, m) ==
    sortFindings(deduplicateFindings(Collected(c, ExpectedInvoked(c, m))))

\* full sorted list of the input at position k of the run
InputFindings(k) == CliFindings(fs[bundlesToScan[k]].content, opts.maxFindings)

RECURSIVE MergedUpTo(_)
\* concatenation of the tagged lists of the first n inputs
MergedUpTo(n) ==
    IF n = 0 THEN << >>
    ELSE MergedUpTo(n - 1) \o TaggedAll(InputFindings(n), bundlesToScan[n])

CountOf(counts, s) == IF s \in DOMAIN counts THEN counts[s] ELSE 0

RECURSIVE SumTo(_, _)
\* g[1] + ... + g[n]
SumTo(g, n) == IF n = 0 THEN 0 ELSE g[n] + SumTo(g, n - 1)

RECURSIVE ApiMerged(_, _)
\* concatenation of the tagged allFindings of the first n results
ApiMerged(results, n) ==
    IF n = 0 THEN << >>
    ELSE ApiMerged(results, n - 1)
            \o TaggedAll(results[n].allFindings, results[n].bundlePath)

\* C11: the merged list of a multi-input scan is the concatenation, in input
\* order, of the inputs' full sorted lists tagged with their bundle paths;
\* the merged total is the sum of the per-input totals and the combined
\* breakdown is the per-severity sum of the per-input breakdowns
C11_MergedIsConcatenation ==
    /\ (pc # "main" /\ err # "write failed") =>
          /\ allFindings = MergedUpTo(b)
          /\ Len(allFindings)
                = SumTo([k \in 1..b |-> Len(InputFindings(k))], b)
    /\ report.kind = "multi" =>
          /\ report.findings = MergedUpTo(Len(bundlesToScan))
          /\ report.totalFindings
                = SumTo([k \in 1..b |-> Len(InputFindings(k))], b)
          /\ \A s \in Levels :
                CountOf(report.summary.severityBreakdown, s)
                  = SumTo([k \in 1..b |->
                             CountOf(severityBreakdown(InputFindings(k)), s)], b)
    /\ (apiResult.kind = "ok" /\ "bundles" \in DOMAIN apiResult) =>
          LET rs == apiResult.bundles
              n == Len(rs)
          IN  /\ apiResult.allFindings = ApiMerged(rs, n)
              /\ apiResult.totalFindings
                    = SumTo([k \in 1..n |-> rs[k].totalFindings], n)
              /\ \A s \in Levels :
                    CountOf(apiResult.severityBreakdown, s)
                      = SumTo([k \in 1..n |-> CountOf(rs[k].severityBreakdown, s)], n)

\* two inputs with the same finding: both copies are in the merged report,
\* each under its own bundle
C11_Witness ==
    /\ report.kind = "multi" /\ Len(report.findings) = 2
    /\ report.findings[1].bundle # report.findings[2].bundle
    /\ report.findings[1].id = report.findings[2].id
    /\ report.findings[1].match = report.findings[2].match
    /\ report.findings[1].position = report.findings[2].position

\* C12: the combined blocking flag is the OR of the per-input flags: true
\* exactly when some input has a finding at or above failLevel, and never
\* reset to false by a later input
C12_CombinedBlockingIsOr ==
    /\ [][hasBlockingFindings => hasBlockingFindings']_vars
    /\ [][b' = b + 1 =>
            (hasBlockingFindings' <=> (hasBlockingFindings \/ hasBlocking'))]_vars
    /\ [](pc = "finish" =>
            (hasBlockingFindings <=>
                \E k \in 1..b : \E j \in DOMAIN InputFindings(k) :
                    AtOrAbove(InputFindings(k)[j].severity, opts.failLevel)))
    /\ []((apiResult.kind = "ok" /\ "bundles" \in DOMAIN apiResult) =>
            (apiResult.hasBlockingFindings <=>
                \E k \in DOMAIN apiResult.bundles :
                    apiResult.bundles[k].hasBlockingFindings))

\* the first input blocks, the second does not, the run still fails
C12_Witness ==
    /\ pc = "exited" /\ err = "none" /\ b = 2 /\ exitCode = 1
    /\ hasBlockingFindings /\ ~hasBlocking
    /\ findings # << >>

\* report of the input at path p, computed from its text alone
InputReport(p) ==
    LET fds == CliFindings(fs[p].content, opts.maxFindings)
    IN  [findings |-> fds,
         severityBreakdown |-> severityBreakdown(fds),
         hasBlocking |-> \E j \in DOMAIN fds :
                            AtOrAbove(fds[j].severity, opts.failLevel)]

\* the orders in which the inputs of seq can be scanned
Perms(seq) ==
    {q \in [DOMAIN seq -> Range(seq)] :
        \A j, k \in DOMAIN seq : j # k => q[j] # q[k]}

RECURSIVE MergedIn(_, _)
\* merged list of a run over the first n inputs of the order q
MergedIn(q, n) ==
    IF n = 0 THEN << >>
    ELSE MergedIn(q, n - 1) \o TaggedAll(InputReport(q[n]).findings, q[n])

PositionIn(seq, x) == CHOOSE k \in DOMAIN seq : seq[k] = x

\* C13: the report of an input (list, breakdown, blocking flag) is the one
\* its text alone determines, whichever position it is scanned at, and the
\* combined blocking flag and breakdown are the same for every order of
\* the inputs
C13_OrderIndependent ==
    /\ (pc \in {"load", "finish"} /\ b > 0) =>
          LET r == InputReport(bundlesToScan[b])
          IN  /\ findings = r.findings
              /\ severityCounts = r.severityBreakdown
              /\ hasBlocking = r.hasBlocking
    /\ pc = "finish" =>
          \A q \in Perms(bundlesToScan) :
              /\ hasBlockingFindings
                    <=> \E k \in DOMAIN q : InputReport(q[k]).hasBlocking
              /\ severityBreakdown(allFindings)
                    = severityBreakdown(MergedIn(q, Len(q)))
    /\ (apiResult.kind = "ok" /\ "bundles" \in DOMAIN apiResult) =>
          \A q \in Perms(foundBundles) :
              LET r == scanMultipleBundles(fs, q, ApiOptions)
              IN  /\ r.kind = "ok"
                  /\ r.hasBlockingFindings = apiResult.hasBlockingFindings
                  /\ r.severityBreakdown = apiResult.severityBreakdown
                  /\ \A k \in DOMAIN q :
                        r.bundles[k]
                          = apiResult.bundles[PositionIn(foundBundles, q[k])]

\* two inputs with different texts, the second scanned after a first one
\* that has findings, and only one of them blocking
C13_Witness ==
    /\ pc = "finish" /\ b = 2
    /\ fs[bundlesToScan[1]].content # fs[bundlesToScan[2]].content
    /\ InputReport(bundlesToScan[1]).findings # << >>
    /\ findings # << >>
    /\ InputReport(bundlesToScan[1]).hasBlocking # hasBlocking

\* a merged finding without the path of its bundle
Untagged(f) == [x \in (DOMAIN f) \ {"bundle"} |-> f[x]]

\* the findings the run reported for the bundle at path p, in order
ReportedFor(p) ==
    LET OfBundle(f) == f.bundle = p
        seg == SelectSeq(allFindings, OfBundle)
    IN  [k \in DOMAIN seg |-> Untagged(seg[k])]

\* C14: two scans of the same text with the same options give lists of the
\* same length with the same findings, field by field, in the same order,
\* and a detector invoked again on the same text returns the same matches
C14_Deterministic ==
    /\ err # "write failed" =>
          \A j, k \in 1..b :
              fs[bundlesToScan[j]].content = fs[bundlesToScan[k]].content =>
                  /\ Len(ReportedFor(bundlesToScan[j])) = Len(ReportedFor(bundlesToScan[k]))
                  /\ ReportedFor(bundlesToScan[j]) = ReportedFor(bundlesToScan[k])
    /\ (pc \in {"load", "finish"} /\ b > 0) =>
          /\ findings = ScanWith(code, ApiOptions).allFindings
          /\ ReportedFor(bundlesToScan[b]) = findings
    /\ pc = "report" =>
          \A r \in 1..i :
              SubSeq(findingsRaw, RawUpTo(code, r - 1) + 1, RawUpTo(code, r))
                  = runRule(RULES[r], code)

\* the same text scanned twice in one run, with a finding
C14_Witness ==
    /\ pc = "finish" /\ b = 2
    /\ fs[bundlesToScan[1]].content = fs[bundlesToScan[2]].content
    /\ Len(allFindings) = 2 /\ Len(findings) = 1

\* the registry without the detector that raises
WorkingRules ==
    LET Works(rule) == ~raises(rule)
    IN  SelectSeq(RULES, Works)

\* C15: when a detector raises an error while an input is scanned, the
\* remaining detectors are still invoked, the findings of the other
\* detectors are reported unchanged and a report is produced for the input
C15_FaultyDetectorDropped ==
    (pc = "exited" /\ faulty # "none" /\ bundlesToScan # << >>
        /\ err \notin {"Bundle not found", "write failed"}
        /\ \A k \in DOMAIN bundlesToScan : fs[bundlesToScan[k]].exists) =>
        /\ err = "none"
        /\ b = Len(bundlesToScan)
        /\ findings = scanCode(WorkingRules, code, 0, ApiOptions).allFindings
        /\ \E k \in DOMAIN console : console[k] = "results"

\* inputs of the run that exist
ExistingInputs == {k \in DOMAIN bundlesToScan : fs[bundlesToScan[k]].exists}

\* C16: in a multi-input run a missing input is fatal only for that input:
\* every other input is still scanned and its findings and blocking status
\* are reported, in the CLI and in scanMultipleBundles
C16_MissingInputScoped ==
    /\ (pc = "exited" /\ Len(bundlesToScan) > 1 /\ err # "write failed") =>
          \A k \in ExistingInputs :
              /\ ReportedFor(bundlesToScan[k]) = InputFindings(k)
              /\ InputReport(bundlesToScan[k]).hasBlocking => hasBlockingFindings
    /\ (pc = "returned" /\ Len(foundBundles) > 1) =>
          \A k \in DOMAIN foundBundles :
              fs[foundBundles[k]].exists =>
                  /\ apiResult.kind = "ok"
                  /\ apiResult.bundles[k]
                        = scanBundle(fs, foundBundles[k], ApiOptions)

Printed(what) == \E k \in DOMAIN console : console[k] = what

\* C17: when the write of the JSON report fails, the findings of every
\* bundle, the overall summary and the verdict have already been printed
\* and the exit code still reflects whether blocking findings exist
C17_WriteFailureAfterOutput ==
    (pc = "exited" /\ err = "write failed") =>
        /\ Printed("results")
        /\ Len(bundlesToScan) > 1 => Printed("summary")
        /\ Printed("passed") \/ Printed("failed")
        /\ exitCode = IF \E k \in DOMAIN allFindings :
                            AtOrAbove(allFindings[k].severity, opts.failLevel)
                      THEN 1 ELSE 0

\* detectors of rule list rules that carry the id of finding f
DetectorsOf(rules, f) == {r \in DOMAIN rules : rules[r].id = f.id}

\* C18: no two detectors of the combined registry share an id, so that all
\* findings with one id come from one detector and carry one title and one
\* severity
C18_IdsUnique ==
    /\ \A j, k \in DOMAIN ALL_RULES :
          /\ j # k => ALL_RULES[j].id # ALL_RULES[k].id
          /\ ALL_RULES[j].id = ALL_RULES[k].id =>
                /\ ALL_RULES[j].title = ALL_RULES[k].title
                /\ ALL_RULES[j].severity = ALL_RULES[k].severity
    /\ \A k \in DOMAIN findingsRaw :
          /\ Cardinality(DetectorsOf(RULES, findingsRaw[k])) = 1
          /\ \A r \in DetectorsOf(RULES, findingsRaw[k]) :
                /\ findingsRaw[k].title = RULES[r].title
                /\ findingsRaw[k].severity = RULES[r].severity

\* C19: the scan of an empty text gives zero findings, an empty severity
\* breakdown and a false blocking flag, for every fail level
C19_EmptyInputNoFindings ==
    (pc \in {"load", "finish"} /\ b > 0 /\ code = EmptyText) =>
        /\ findings = << >>
        /\ severityCounts = EmptyCounts
        /\ ~hasBlocking

\* C20: for every bundle text and every maxFindings the full list, the
\* breakdown and the blocking flag of scanBundle are those the CLI pipeline
\* computes for the same text and thresholds; a text on which a detector
\* matches yields a finding with the id of that detector
C20_ApiMatchesCli ==
    (pc = "returned" /\ opts.bundle # 0 /\ apiResult.kind = "ok") =>
        LET r == InputReport(opts.bundle)
        IN  /\ apiResult.allFindings = r.findings
            /\ apiResult.totalFindings = Len(r.findings)
            /\ apiResult.severityBreakdown = r.severityBreakdown
            /\ apiResult.hasBlockingFindings = r.hasBlocking
            /\ fs[opts.bundle].content[RULES[1].id] # << >> =>
                  \E k \in DOMAIN apiResult.allFindings :
                      apiResult.allFindings[k].id = RULES[1].id

\* number of findings of fds at or above the level
CountAtOrAbove(fds, level) ==
    Cardinality({k \in DOMAIN fds : AtOrAbove(fds[k].severity, level)})

\* C21: the findings written to the JSON report are the full deduplicated
\* sorted list of the run, whatever the show level: those of the one input
\* in a single-bundle report, the tagged lists of all inputs in a
\* multi-bundle report; of the report only displayedOnScreen (and the
\* recorded showLevel) follow the show level.
C21_ReportHoldsAllFindings ==
    /\ report.kind = "single" =>
          /\ report.findings = InputFindings(1)
          /\ report.summary.total = Len(InputFindings(1))
          /\ report.summary.severityBreakdown = severityBreakdown(InputFindings(1))
          /\ report.summary.displayedOnScreen
                = CountAtOrAbove(InputFindings(1), opts.showLevel)
          /\ report.summary.showLevel = opts.showLevel
    /\ report.kind = "multi" =>
          /\ report.findings = MergedUpTo(Len(bundlesToScan))
          /\ report.totalFindings = Len(MergedUpTo(Len(bundlesToScan)))
          /\ report.summary.showLevel = opts.showLevel

\* C21 witness: a single-bundle report was written whose findings are more
\* than the ones displayed on screen.
C21_Witness ==
    /\ report.kind = "single"
    /\ report.summary.displayedOnScreen > 0
    /\ report.summary.displayedOnScreen < Len(report.findings)

\* the finding the pipeline owes for a raw match of a detector: the
\* detector's id, title and severity, and every field of the raw match
Declared(rule, raw) ==
    [x \in {"id", "title", "severity"} \cup (DOMAIN raw) |->
        IF x = "id" THEN rule.id
        ELSE IF x = "title" THEN rule.title
        ELSE IF x = "severity" THEN rule.severity
        ELSE raw[x]]

\* the findings owed for the text c
DeclaredFor(c) ==
    UNION {{Declared(RULES[k], c[RULES[k].id][j]) : j \in DOMAIN c[RULES[k].id]} :
              k \in 1..Len(RULES)}

\* the findings owed for the bundle at path p
DeclaredAt(p) == DeclaredFor(fs[p].content)

AllAsDeclared(fds, p) == \A k \in DOMAIN fds : fds[k] \in DeclaredAt(p)

TaggedAsDeclared(fds) ==
    \A k \in DOMAIN fds : Untagged(fds[k]) \in DeclaredAt(fds[k].bundle)

\* C22: every finding, wherever the pipeline holds it (collected, deduplicated
\* and sorted, displayed, merged, written to the report), has the id, title
\* and severity declared by the detector that produced it, and the fields of
\* its raw match (the entropy metadata included) as the detector returned
\* them.
C22_SeverityAsDeclared ==
    /\ \A k \in DOMAIN findingsRaw : findingsRaw[k] \in DeclaredFor(code)
    /\ Reported /\ b > 0 =>
          /\ AllAsDeclared(findings, bundlesToScan[b])
          /\ AllAsDeclared(displayFindings, bundlesToScan[b])
    /\ TaggedAsDeclared(allFindings)
    /\ report.kind = "single" => AllAsDeclared(report.findings, report.meta.file)
    /\ report.kind = "multi" => TaggedAsDeclared(report.findings)

\* C22 witness: a multi-bundle report holds a finding that carries the
\* entropy metadata, and a finding of that kind was displayed.
C22_Witness ==
    /\ report.kind = "multi"
    /\ \E k \in DOMAIN report.findings : "meta" \in DOMAIN report.findings[k]
    /\ \E k \in DOMAIN displayFindings : "meta" \in DOMAIN displayFindings[k]

\* Shannon entropy of the characters of s, as the fraction num / den: the
\* sum of -p(c) * log2(p(c)) over the characters c of s, p(c) being the
\* share of c among the characters of s
Shannon(s) ==
    LET cps == codePoints(s)
        n == IF cps = << >> THEN 1 ELSE Len(cps)
        occ == [ch \in {cps[k] : k \in DOMAIN cps} |->
                   Cardinality({k \in DOMAIN cps : cps[k] = ch})]
    IN  [num |-> entropyLoop(occ, DOMAIN occ, n), den |-> n]

\* the literal is skipped before it is scored: it is empty, or it is short
\* and looks like a path or an identifier
PreExcluded(s) == s = << >> \/ (simpleToken(s) /\ Len(s) < 24)

OneRepeated(s) == s # << >> /\ \A k \in DOMAIN s : s[k] = s[1]

\* C23: for a string literal that is not pre-excluded, the high-entropy
\* detector reports a finding exactly when (H >= 4.0 and (the trimmed string
\* is all base64 alphabet or all hexadecimal, or is at least 20 long)) or
\* H >= 4.5, H being the Shannon entropy of the trimmed string; a string of
\* one repeated character is never reported.
C23_FlaggedIffThreshold ==
    call.fn = "KEY-OTHER" /\ ret.done =>
        LET s == trim(call.value)
            H == Shannon(s)
            flagged == ret.value # << >>
        IN  ~PreExcluded(s) =>
               /\ flagged <=>
                     \/ /\ entropyGte(H, 40)
                        /\ maybeBase64ish(s) \/ maybeHexish(s) \/ Len(s) >= 20
                     \/ entropyGte(H, 45)
               /\ OneRepeated(s) => ~flagged

\* the line terminators: line feed, carriage return, line separator,
\* paragraph separator
IsLineBreak(u) == u \in {LF, CR, 8232, 8233}

\* C24: the snippet of a finding at index i is the text from max(0, i - 60)
\* up to min(length, i + 60) with every line-break character replaced by a
\* space: it is as long as that window, at most 120 characters, and holds
\* no line-break character.
C24_SnippetIsWindow ==
    call.fn = "makeSnippet" /\ ret.done =>
        LET lo == IF call.idx > 60 THEN call.idx - 60 ELSE 0
            hi == IF call.idx + 60 < Len(call.text) THEN call.idx + 60
                  ELSE Len(call.text)
            window == [k \in 1..(hi - lo) |-> call.text[lo + k]]
        IN  /\ Len(ret.value) = Len(window)
            /\ Len(ret.value) <= 120
            /\ \A k \in DOMAIN window :
                  ret.value[k] = IF IsLineBreak(window[k]) THEN SP ELSE window[k]
            /\ \A k \in DOMAIN ret.value : ~IsLineBreak(ret.value[k])

\* the marker that the called slicePreview inserts
MarkerOf(fn) == IF fn = "slicePreview" THEN GarbledEllipsis ELSE Ellipsis

\* C25: slicePreview(s, max) returns s unchanged when s is at most max long;
\* otherwise it returns the first floor(max / 2) characters of s, one
\* ellipsis marker and the last floor(max / 2) characters of s, and the
\* result is never longer than max.
C25_PreviewWithinCap ==
    call.fn \in {"slicePreview", "formatter.slicePreview"} /\ ret.done =>
        LET half == call.max \div 2
            n == Len(call.s)
        IN  /\ n <= call.max => ret.value = call.s
            /\ n > call.max =>
                  ret.value = [k \in 1..half |-> call.s[k]]
                                 \o MarkerOf(call.fn)
                                 \o [k \in 1..half |-> call.s[n - half + k]]
            /\ Len(ret.value) <= call.max

\* findings of the pipeline over RULES in the order of lupin.js
InRegistryOrder == scanCode(RULES, call.code, 1, call.options).allFindings

RECURSIVE RawBefore(_, _, _)
\* number of raw findings that the first k detectors of rules return on c
RawBefore(rules, c, k) ==
    IF k = 0 THEN 0 ELSE RawBefore(rules, c, k - 1) + Len(c[rules[k].id])

\* the cap stops the rule loop before the last detector of rules
StopsEarly(rules, c, maxFindings) ==
    \E k \in 1..(Len(rules) - 1) : RawBefore(rules, c, k) >= maxFindings

SortedBySeverityThenPosition(fds) ==
    \A j, k \in DOMAIN fds :
        j < k =>
           \/ SevRank[fds[j].severity] > SevRank[fds[k].severity]
           \/ /\ fds[j].severity = fds[k].severity
              /\ fds[j].position <= fds[k].position

SamePlacementUnlessTied(fds, gds) ==
    \A f, g \in Range(fds) \cap Range(gds) :
        (f.severity # g.severity \/ f.position # g.position) =>
            (PositionIn(fds, f) < PositionIn(fds, g)
                <=> PositionIn(gds, f) < PositionIn(gds, g))

\* C26 (as stated): whatever the order of the registry, the pipeline reports
\* the same set of findings, ordered by severity and then position, and
\* the order changes the placement of tied findings only.
C26_OrderIndependent ==
    call.fn = "scan" /\ ret.done =>
        /\ Range(ret.value.allFindings) = Range(InRegistryOrder)
        /\ SortedBySeverityThenPosition(ret.value.allFindings)
        /\ SamePlacementUnlessTied(ret.value.allFindings, InRegistryOrder)

\* C26 (amended): for two orders of the registry under neither of which the
\* cap stops the rule loop before the last detector, the pipeline reports
\* the same set of findings, ordered by severity and then position, and the
\* order changes the placement of tied findings only; under every order the
\* report is ordered by severity and then position.
C26_OrderIndependentBelowCap ==
    call.fn = "scan" /\ ret.done =>
        /\ SortedBySeverityThenPosition(ret.value.allFindings)
        /\ (/\ ~StopsEarly(call.rules, call.code, call.options.maxFindings)
            /\ ~StopsEarly(RULES, call.code, call.options.maxFindings)) =>
              /\ Range(ret.value.allFindings) = Range(InRegistryOrder)
              /\ SamePlacementUnlessTied(ret.value.allFindings, InRegistryOrder)

\* C26 witness: under another order of the registry the detectors all ran
\* and the report holds the same findings in another sequence, two of which
\* tie on severity and position.
C26_Witness ==
    /\ call.fn = "scan" /\ ret.done
    /\ call.rules # RULES
    /\ ~StopsEarly(call.rules, call.code, call.options.maxFindings)
    /\ ~StopsEarly(RULES, call.code, call.options.maxFindings)
    /\ ret.value.allFindings # InRegistryOrder
    /\ Range(ret.value.allFindings) = Range(InRegistryOrder)
    /\ Len(ret.value.allFindings) = 2

\* the level that the CLI compares with: lower-cased, medium when none is
\* given
CliLevel(level) == toLowerCase(orDefault(level))

\* the bundle of the run was reported without a write error
BundleReported == pc \in {"load", "finish", "exited"} /\ b > 0 /\ err = "none"

\* C27: a fail level that is not a severity name ranks below info, so the
\* blocking flag is true exactly when the report has a finding, and a show
\* level that is not a severity name lets every finding be displayed; the
\* CLI compares with the lower-cased level, scanBundle with the level as
\* given; no level value makes the run or the call fail.
C27_UnknownLevelBelowInfo ==
    /\ BundleReported =>
          /\ CliLevel(opts.failLevel) \notin Levels =>
                /\ hasBlocking = (findings # << >>)
                /\ pc = "exited" => exitCode = IF findings # << >> THEN 1 ELSE 0
          /\ CliLevel(opts.showLevel) \notin Levels => displayFindings = findings
    /\ apiResult.kind # "none" /\ fs[opts.bundle].exists =>
          LET r == ScanWith(fs[opts.bundle].content, ApiOptions)
          IN  /\ apiResult.kind = "ok"
              /\ opts.failLevel \notin Levels =>
                    /\ apiResult.hasBlockingFindings = (apiResult.allFindings # << >>)
                    /\ r.hasBlockingFindings = (r.allFindings # << >>)
              /\ opts.showLevel \notin Levels =>
                    /\ apiResult.findings = apiResult.allFindings
                    /\ r.findings = r.allFindings
    /\ err \in {"none", "Bundle not found", "write failed"}
    /\ err = "Bundle not found" => ~fs[opts.bundle].exists

\* C27 witness: with a misspelt fail level and a misspelt show level a run
\* whose findings are all of medium severity displayed them all and exited
\* with 1.
C27_Witness ==
    /\ BundleReported /\ pc = "exited"
    /\ opts.failLevel = "hihg" /\ opts.showLevel = "hihg"
    /\ findings # << >>
    /\ \A k \in DOMAIN findings : findings[k].severity = "medium"
    /\ displayFindings = findings
    /\ exitCode = 1

Writes == Cardinality({k \in DOMAIN console : console[k] = "report written"})

\* C29: a run of the CLI that scans N >= 1 bundles and ends without an error
\* has written exactly one report if JSON is enabled, the single-bundle
\* report (meta, findings, summary) for N = 1 and the multi-bundle report
\* (bundles, totalFindings, findings tagged with their bundle) for N > 1,
\* and no report with --no-json; a report is written only onto no report,
\* and only before the exit.
C29_OneReportPerRun ==
    /\ [](Writes <= 1)
    /\ []((pc = "exited" /\ err = "none" /\ Len(bundlesToScan) >= 1) =>
            IF opts.json
            THEN /\ Writes = 1
                 /\ Len(bundlesToScan) = 1 =>
                       /\ report.kind = "single"
                       /\ DOMAIN report = {"kind", "meta", "findings", "summary"}
                       /\ report.meta.file = bundlesToScan[1]
                 /\ Len(bundlesToScan) > 1 =>
                       /\ report.kind = "multi"
                       /\ DOMAIN report = {"kind", "bundles", "totalFindings",
                                           "findings", "summary"}
                       /\ report.bundles = Len(bundlesToScan)
                       /\ report.totalFindings = Len(report.findings)
                       /\ \A k \in DOMAIN report.findings :
                             /\ "bundle" \in DOMAIN report.findings[k]
                             /\ report.findings[k].bundle \in Range(bundlesToScan)
            ELSE Writes = 0 /\ report = NoReport)
    /\ [][report' # report =>
             /\ report = NoReport /\ opts.json
             /\ pc # "exited"
             /\ Writes = 0 /\ Writes' = 1]_vars

\* C29 witness: a run over two bundles ended without an error and wrote the
\* multi-bundle report with findings of both bundles.
C29_Witness ==
    /\ pc = "exited" /\ err = "none"
    /\ Len(bundlesToScan) = 2
    /\ report.kind = "multi"
    /\ \E j, k \in DOMAIN report.findings :
          report.findings[j].bundle # report.findings[k].bundle

NoBundleField(fds) == \A k \in DOMAIN fds : "bundle" \notin DOMAIN fds[k]

\* C30: the merge leaves the results of the inputs as they were: after the
\* merge step the full list of the bundle is the deduplicated sorted list of
\* its text, the displayed list is that list filtered, neither holds a
\* finding with a bundle field, and the merged list holds their tagged
\* copies; the findings of the single-bundle report carry no bundle field;
\* the per-bundle results returned by scanMultipleBundles are those scanBundle
\* returns.
C30_MergeLeavesInputs ==
    /\ BundleReported =>
          /\ findings = InputFindings(b)
          /\ displayFindings
                = filterBySeverity(InputFindings(b), CliLevel(opts.showLevel))
          /\ NoBundleField(findings)
          /\ NoBundleField(displayFindings)
          /\ ReportedFor(bundlesToScan[b]) = findings
    /\ report.kind = "single" =>
          /\ NoBundleField(report.findings)
          /\ report.findings = InputFindings(1)
    /\ apiResult.kind = "ok" =>
          \A k \in DOMAIN ApiBundles :
              /\ ApiBundles[k] = scanBundle(fs, ApiBundles[k].bundlePath, ApiOptions)
              /\ NoBundleField(ApiBundles[k].allFindings)
              /\ NoBundleField(ApiBundles[k].findings)

\* C30 witness: in a run over two bundles the second bundle's findings were
\* merged, tagged with its path, and its own list holds them untagged.
C30_Witness ==
    /\ BundleReported /\ b = 2
    /\ findings # << >>
    /\ NoBundleField(findings)
    /\ \E k \in DOMAIN allFindings : allFindings[k].bundle = bundlesToScan[2]

====
